---- MODULE Spec2Model ----
(***************************************************************************)
(* Cache-aside proximity pipeline of the driver location service:          *)
(* DriverApplicationService (application/driver_service.go) in front of    *)
(* the Mongo driver repository and the Redis driver cache.                 *)
(*                                                                         *)
(* Units.  Go float64 values are kept exact by choosing binary units:      *)
(*   coordinates  : multiples of 2^-21 degree                              *)
(*   radius       : multiples of 1/8 metre     (RadiusDenom per metre)     *)
(*   distances    : millimetres                                            *)
(*   time         : ticks, Minute ticks per minute                         *)
(***************************************************************************)
EXTENDS Integers, Sequences, FiniteSets, TLC

(* ------------------------------ bounds -------------------------------- *)
NumProcs == 2        \* concurrent requests (one goroutine each)
MaxGenerated == 0    \* ObjectIDs the repository may generate
Minute == 1          \* ticks per minute
MaxKeyCoord == 2     \* coordinates -MaxKeyCoord..MaxKeyCoord in SpecKey
MaxKeyRadius == 5    \* radii 1..MaxKeyRadius (eighths of a metre) in SpecKey
NumCallers == 4      \* concurrent FindNearbyDrivers calls in SpecClient
MaxCalls == 7        \* calls admitted in one generation of the breaker
TimeStep == 10       \* seconds per tick in SpecClient
MaxRepoGenerated == 1  \* ObjectIDs the repository may generate in SpecRepo
MaxTime == 2         \* values 1..MaxTime of time.Now() in SpecRepo
DeadlineStep == 5    \* seconds per tick in SpecDeadline
MaxCsvCoord == 2     \* coordinates -MaxCsvCoord..MaxCsvCoord of the CSV records in SpecCoord
MaxBatches == 101    \* batches the importer reads in SpecImport
MaxBadRows == 1      \* records the importer cannot read or parse in SpecImport
PartialBatch == 2    \* records of a last batch that is not full in SpecImport

(* ------------------------ units and constants ------------------------- *)
RadiusDenom == 8               \* radius units per metre
MicroPerUnitNum == 15625       \* 10^6 / 2^21 = 15625 / 32768
MicroPerUnitDen == 32768
MilliMetersPerUnitE3 == 53022  \* R * pi / 180 / 2^21, in micrometres (R = 6371000 m)
DefaultLimit == 10
DriverCacheTTL == 1 * Minute
NearbyCacheTTL == 1 * Minute

\* gobreaker.Settings of the DriverLocationClient, times in seconds
MaxRequests == 3
Interval == 60
Timeout == 10
\* ConsecutiveFailures beyond which the default ReadyToTrip trips
DefaultConsecutiveFailures == 5
\* http.Client.Timeout of the DriverLocationClient, in seconds
RequestTimeout == 30
\* context.WithTimeout of MongoDriverRepository.SearchNearby, in seconds
SearchNearbyTimeout == 10

Procs == 1..NumProcs
DriverIDs == {"d1"}
GeneratedIDs == {"oid" \o ToString(i) : i \in 1..MaxGenerated}
AllIDs == DriverIDs \cup GeneratedIDs

(* ------------------------------ domain -------------------------------- *)
NewPoint(longitude, latitude) ==
    [Type |-> "Point", Coordinates |-> <<longitude, latitude>>]

ZeroPoint == [Type |-> "", Coordinates |-> <<>>]

Longitude(p) == p.Coordinates[1]

Latitude(p) == p.Coordinates[2]

Abs(n) == IF n < 0 THEN -n ELSE n

RECURSIVE ISqrtBetween(_, _, _)
ISqrtBetween(n, lo, hi) ==
    IF lo >= hi THEN lo
    ELSE LET mid == (lo + hi + 1) \div 2
         IN  IF mid * mid <= n THEN ISqrtBetween(n, mid, hi)
             ELSE ISqrtBetween(n, lo, mid - 1)

\* math.Sqrt, rounded down
ISqrt(n) == ISqrtBetween(n, 0, 4096)

\* Great-circle distance in millimetres.  All model points lie within a few
\* 2^-21-degree units of (0, 0), where the haversine value R * c reduces to
\* R * (pi / 180) * 2^-21 * sqrt(dLat^2 + dLon^2).
HaversineDistance(lat1, lon1, lat2, lon2) ==
    LET dLat == lat2 - lat1
        dLon == lon2 - lon1
    IN  (MilliMetersPerUnitE3 * ISqrt(10000 * (dLat * dLat + dLon * dLon))) \div 100000

Distance(p, other) ==
    HaversineDistance(Latitude(p), Longitude(p), Latitude(other), Longitude(other))

\* validator tags of domain.Point: Type required,eq=Point; Coordinates required,len=2
ValidPoint(p) == p.Type = "Point" /\ Len(p.Coordinates) = 2

\* strings.TrimSpace on the identifiers the model uses
TrimSpace(s) == IF s = " " THEN "" ELSE s

(* ------------------------- cache key derivation ----------------------- *)
RoundHalfEven(n, d) ==
    LET q == n \div d
        r == n % d
    IN  IF 2 * r < d THEN q
        ELSE IF 2 * r > d THEN q + 1
        ELSE IF q % 2 = 0 THEN q ELSE q + 1

Pad6(n) ==
    IF n < 10 THEN "00000" \o ToString(n)
    ELSE IF n < 100 THEN "0000" \o ToString(n)
    ELSE IF n < 1000 THEN "000" \o ToString(n)
    ELSE IF n < 10000 THEN "00" \o ToString(n)
    ELSE IF n < 100000 THEN "0" \o ToString(n)
    ELSE ToString(n)

\* fmt "%.6f" of a coordinate given in 2^-21-degree units
FormatF6(c) ==
    LET micro == RoundHalfEven(Abs(c) * MicroPerUnitNum, MicroPerUnitDen)
    IN  (IF c < 0 THEN "-" ELSE "") \o ToString(micro \div 1000000)
            \o "." \o Pad6(micro % 1000000)

\* fmt "%.0f" of a radius given in eighths of a metre
FormatF0(r) ==
    (IF r < 0 THEN "-" ELSE "") \o ToString(RoundHalfEven(Abs(r), RadiusDenom))

generateDriverKey(driverID) == "driver:" \o driverID

\* the key leaves the limit out
generateNearbyKeyNoLimit(lat, lon, radius, limit) ==
    "nearby:" \o FormatF6(lat) \o ":" \o FormatF6(lon) \o ":" \o FormatF0(radius)

generateNearbyKey(lat, lon, radius, limit) ==
    "nearby:" \o FormatF6(lat) \o ":" \o FormatF6(lon) \o ":" \o FormatF0(radius)
        \o ":" \o ToString(limit)

(* ------------------------------- state -------------------------------- *)
VARIABLES
    collection,   \* Mongo "drivers" collection: _id -> document
    redis,        \* Redis keyspace: key -> [data, ttl, age]
    cacheKind,    \* "redis" (RedisDriverCache) or "noop" (NoOpCache), fixed at start-up
    generated,    \* number of ObjectIDs generated so far
    proc,         \* per request goroutine: operation, position, locals, recorded calls
    keyIn,        \* SpecKey: a pair of nearby queries
    keyOut,       \* SpecKey: the keys derived for keyIn
    expired,      \* SpecTTL: keys whose TTL ran out and that were not written since
    lookup,       \* SpecTTL: the last cache lookup and what it returned
    breaker,      \* SpecClient: the gobreaker.CircuitBreaker of the client
    inflight,     \* SpecClient: FindNearbyDrivers calls between Execute's entry and exit
    last,         \* SpecClient: what the last finished FindNearbyDrivers call returned
    match,        \* SpecMatch: the last match request served and how it was answered
    outbound,     \* SpecDeadline: the outbound call followed, its age and its caller's signal
    importer      \* SpecImport, SpecCoord: the CSV importer's goroutines, channels and counters

ttlVars == <<expired, lookup>>

clientVars == <<breaker, inflight, last>>

matchVars == <<match, outbound>>

importVars == <<importer>>

vars == <<collection, redis, cacheKind, generated, proc, keyIn, keyOut, ttlVars, clientVars, matchVars, importVars>>

\* the parts of the state a specification does not use stay at these values
NoTTL == expired = {} /\ lookup = <<>>

NoClient == breaker = <<>> /\ inflight = <<>> /\ last = <<>>

NoMatch == match = <<>> /\ outbound = <<>>

NoImport == importer = <<>>

\* domain.Driver; CreatedAt and UpdatedAt are left out
Driver(id, location) == [ID |-> id, Location |-> location]

DriverWithDistance(driver, distance) == [Driver |-> driver, Distance |-> distance]

\* bson tags of domain.Driver: _id, location
ToDocument(driver) == [_id |-> driver.ID, location |-> driver.Location]

FromDocument(doc) == Driver(doc._id, doc.location)

\* json tags of domain.Driver (id, location) and DriverWithDistance (driver, distance)
MarshalDriver(driver) == [id |-> driver.ID, location |-> driver.Location]

UnmarshalDriver(data) == Driver(data.id, data.location)

MarshalNearby(drivers) ==
    [i \in 1..Len(drivers) |->
        [driver |-> MarshalDriver(drivers[i].Driver), distance |-> drivers[i].Distance]]

UnmarshalNearby(data) ==
    [i \in 1..Len(data) |->
        DriverWithDistance(UnmarshalDriver(data[i].driver), data[i].distance)]

(* ---------------------- Mongo repository (adapter/db) ----------------- *)
RadiusMilliMeters(radiusMeters) == (radiusMeters * 1000) \div RadiusDenom

\* documents matched by $near with $maxDistance
NearIDs(coll, location, radiusMeters) ==
    {id \in DOMAIN coll :
        Distance(location, coll[id].location) <= RadiusMilliMeters(radiusMeters)}

\* the matches in any order
NearOrdersUnordered(coll, location, radiusMeters) ==
    LET ids == NearIDs(coll, location, radiusMeters)
        n == Cardinality(ids)
    IN  {f \in [1..n -> ids] : \A i, j \in 1..n : i # j => f[i] # f[j]}

\* $near returns the matches nearest first; the order of equidistant
\* documents is not specified
NearOrders(coll, location, radiusMeters) ==
    LET ids == NearIDs(coll, location, radiusMeters)
        n == Cardinality(ids)
    IN  {f \in [1..n -> ids] :
            /\ \A i, j \in 1..n : i # j => f[i] # f[j]
            /\ \A i \in 1..n : \A j \in 1..n :
                 i < j => Distance(location, coll[f[i]].location)
                            <= Distance(location, coll[f[j]].location)}

\* options.Find().SetLimit: 0 means no limit, a negative limit is taken as
\* its absolute value
ApplyLimit(seq, limit) ==
    IF limit = 0 \/ Abs(limit) >= Len(seq) THEN seq ELSE SubSeq(seq, 1, Abs(limit))

\* the result lists SearchNearby can return
SearchNearby(coll, location, radiusMeters, limit) ==
    {[i \in 1..Len(ApplyLimit(f, limit)) |->
         DriverWithDistance(FromDocument(coll[f[i]]),
                            Distance(location, FromDocument(coll[f[i]]).Location))] :
        f \in NearOrders(coll, location, radiusMeters)}

(* --------------------- Redis keyspace (go-redis) ---------------------- *)
\* SET key data EX ttl; a zero ttl stores the key without expiry
RedisSet(r, key, data, ttl) ==
    [k \in DOMAIN r \cup {key} |->
        IF k = key THEN [data |-> data, ttl |-> ttl, age |-> 0] ELSE r[k]]

RedisDel(r, keys) == [k \in DOMAIN r \ keys |-> r[k]]

\* one tick of time in a keyspace that keeps serving keys whose ttl ran out
RedisExpireKeeping(r) ==
    [k \in DOMAIN r |->
        [r[k] EXCEPT !.ttl = IF @ <= 1 THEN 0 ELSE @ - 1,
                     !.age = IF @ < Minute THEN @ + 1 ELSE @]]

\* one tick of time: keys whose ttl runs out disappear
RedisExpire(r) ==
    [k \in {j \in DOMAIN r : r[j].ttl # 1} |->
        [r[k] EXCEPT !.ttl = IF @ = 0 THEN 0 ELSE @ - 1,
                     !.age = IF @ < Minute THEN @ + 1 ELSE @]]

(* ------------- DriverCache implementations (outcome sets) ------------- *)
\* each operator gives the outcomes the call can have: its result, the
\* value it returns and the keyspace it leaves
Outcome(out, val, r) == [out |-> out, val |-> val, redis |-> r]

CacheGet(kind, r, driverID) ==
    IF kind = "noop" THEN {Outcome("miss", <<>>, r)}
    ELSE {Outcome("err", <<>>, r)} \cup
         (IF generateDriverKey(driverID) \in DOMAIN r
          THEN {Outcome("hit", <<UnmarshalDriver(r[generateDriverKey(driverID)].data)>>, r)}
          ELSE {Outcome("miss", <<>>, r)})

CacheSet(kind, r, driverID, driver, ttl) ==
    IF kind = "noop" THEN {Outcome("ok", <<>>, r)}
    ELSE {Outcome("err", <<>>, r),
          Outcome("ok", <<>>, RedisSet(r, generateDriverKey(driverID), MarshalDriver(driver), ttl))}

CacheDelete(kind, r, driverID) ==
    IF kind = "noop" THEN {Outcome("ok", <<>>, r)}
    ELSE {Outcome("err", <<>>, r),
          Outcome("ok", <<>>, RedisDel(r, {generateDriverKey(driverID)}))}

CacheGetNearbyDrivers(kind, r, lat, lon, radius, limit) ==
    IF kind = "noop" THEN {Outcome("miss", <<>>, r)}
    ELSE {Outcome("err", <<>>, r)} \cup
         (IF generateNearbyKey(lat, lon, radius, limit) \in DOMAIN r
          THEN {Outcome("hit",
                        <<UnmarshalNearby(r[generateNearbyKey(lat, lon, radius, limit)].data)>>, r)}
          ELSE {Outcome("miss", <<>>, r)})

CacheSetNearbyDrivers(kind, r, lat, lon, radius, limit, drivers, ttl) ==
    IF kind = "noop" THEN {Outcome("ok", <<>>, r)}
    ELSE {Outcome("err", <<>>, r),
          Outcome("ok", <<>>, RedisSet(r, generateNearbyKey(lat, lon, radius, limit),
                                       MarshalNearby(drivers), ttl))}

\* the keys of materialized nearby-search entries
IsNearbyKey(k) == k \notin {generateDriverKey(id) : id \in AllIDs \cup {""}}

\* invalidateAllNearby(): removes every materialized nearby-search entry
CacheInvalidateNearbyCache(kind, r) ==
    IF kind = "noop" THEN {Outcome("ok", <<>>, r)}
    ELSE {Outcome("err", <<>>, r),
          Outcome("ok", <<>>, RedisDel(r, {k \in DOMAIN r : IsNearbyKey(k)}))}

(* ------------------------ request bookkeeping ------------------------- *)
IdleProc ==
    [op |-> "idle", pc |-> "idle", id |-> "", location |-> ZeroPoint, radius |-> 0,
     reqLimit |-> 0, limit |-> 0, batch |-> <<>>, val |-> <<>>, ret |-> <<>>, err |-> "",
     calls |-> <<>>, overlap |-> FALSE]

\* a request that has returned is gone at the next step: its handler has
\* written the response
Finished == [q \in Procs |-> IF proc[q].pc = "done" THEN IdleProc ELSE proc[q]]

\* the other requests as a step of some request leaves them: those still in
\* flight have now run concurrently with another request
Retired ==
    [q \in Procs |->
        IF proc[q].pc \in {"idle", "done"} THEN IdleProc
        ELSE [proc[q] EXCEPT !.overlap = TRUE]]

\* request slot p is free
Free(p) == proc[p].pc \in {"idle", "done"}

\* a request entering slot p
Begin(p) == [IdleProc EXCEPT !.overlap = \E q \in Procs \ {p} : ~Free(q)]

Call(name, out, val) == [call |-> name, out |-> out, val |-> val]

\* request p moves to pc, having made the call c
Step(p, pc, c) ==
    [Retired EXCEPT ![p] = [proc[p] EXCEPT !.pc = pc, !.calls = Append(@, c)]]

\* the result of a repository call: outcome, returned value, error text
Result(out, val, err) == [out |-> out, val |-> val, err |-> err]

\* request p returns (ret, err)
Done(pr, ret, err) == [pr EXCEPT !.pc = "done", !.ret = ret, !.err = err]

(* --------------------------- request inputs --------------------------- *)
P0 == NewPoint(0, 0)
P1 == NewPoint(4, 1)
Q0 == NewPoint(1, 0)
BadPoint == [Type |-> "Polygon", Coordinates |-> <<0, 0>>]
IDInputs == DriverIDs \cup {" "}
DriverInputs ==
    {[ID |-> "d1", Location |-> P0], [ID |-> "d1", Location |-> P1],
     [ID |-> "", Location |-> P1], [ID |-> " ", Location |-> BadPoint]}
UpdateInputs ==
    {[ID |-> "d1", Location |-> P0], [ID |-> "d1", Location |-> P1],
     [ID |-> " ", Location |-> P0], [ID |-> "d1", Location |-> BadPoint]}
BatchInputs ==
    {<<>>, <<[ID |-> "d1", Location |-> P0]>>,
     <<[ID |-> "d1", Location |-> P0], [ID |-> "d1", Location |-> P1]>>,
     <<[ID |-> "", Location |-> P1], [ID |-> "d1", Location |-> P0]>>}
SearchInputs ==
    {[Location |-> Q0, Radius |-> 1, Limit |-> 0],
     [Location |-> Q0, Radius |-> 2, Limit |-> 10],
     [Location |-> Q0, Radius |-> 1, Limit |-> -1],
     [Location |-> Q0, Radius |-> 0, Limit |-> 10],
     [Location |-> BadPoint, Radius |-> 1, Limit |-> 0]}

(* ---------------------- repository call outcomes --------------------- *)
\* MongoDriverRepository.GetByID: the outcomes of FindOne(_id).Decode
RepoGetByID(coll, id) ==
    {Result("err", <<>>, "failed to get driver: db error")} \cup
    (IF id \in DOMAIN coll
     THEN {Result("ok", <<FromDocument(coll[id])>>, "")}
     ELSE {Result("notfound", <<>>, "driver not found: " \o id)})

\* MongoDriverRepository.SearchNearby: the outcomes of Find and cursor.All
RepoSearchNearby(coll, location, radiusMeters, limit) ==
    {Result("err", <<>>, "failed to search nearby drivers: db error")} \cup
    {Result("ok", <<l>>, "") : l \in SearchNearby(coll, location, radiusMeters, limit)}

\* MongoDriverRepository.Create: the outcomes of InsertOne
RepoCreate(coll, driver) ==
    {Result("err", coll, "failed to insert driver: db error")} \cup
    (IF driver.ID \in DOMAIN coll
     THEN {Result("err", coll, "failed to insert driver: duplicate key")}
     ELSE {Result("ok", [k \in DOMAIN coll \cup {driver.ID} |->
                            IF k = driver.ID THEN ToDocument(driver) ELSE coll[k]], "")})

\* the first n drivers can be inserted one after the other
Insertable(coll, drivers, n) ==
    \A i \in 1..n : /\ drivers[i].ID \notin DOMAIN coll
                    /\ \A j \in 1..(i - 1) : drivers[j].ID # drivers[i].ID

InsertFirst(coll, drivers, n) ==
    [k \in DOMAIN coll \cup {drivers[i].ID : i \in 1..n} |->
        IF \E i \in 1..n : drivers[i].ID = k
        THEN ToDocument(drivers[CHOOSE i \in 1..n : drivers[i].ID = k])
        ELSE coll[k]]

\* MongoDriverRepository.BatchCreate: the outcomes of an ordered InsertMany,
\* which stops at the first document it cannot insert
RepoBatchCreate(coll, drivers) ==
    IF Len(drivers) = 0 THEN {Result("ok", coll, "")}
    ELSE {Result("err", InsertFirst(coll, drivers, n), "failed to batch insert drivers") :
             n \in {m \in 0..(Len(drivers) - 1) : Insertable(coll, drivers, m)}}
         \cup (IF Insertable(coll, drivers, Len(drivers))
               THEN {Result("ok", InsertFirst(coll, drivers, Len(drivers)), "")}
               ELSE {})

\* MongoDriverRepository.Update: the outcomes of UpdateOne with $set
RepoUpdate(coll, driver) ==
    {Result("err", coll, "failed to update driver: db error")} \cup
    (IF driver.ID \in DOMAIN coll
     THEN {Result("ok", [coll EXCEPT ![driver.ID] = ToDocument(driver)], "")}
     ELSE {Result("notfound", coll, "driver not found: " \o driver.ID)})

\* MongoDriverRepository.Delete: the outcomes of DeleteOne
RepoDelete(coll, id) ==
    {Result("err", coll, "failed to delete driver: db error")} \cup
    (IF id \in DOMAIN coll
     THEN {Result("ok", [k \in DOMAIN coll \ {id} |-> coll[k]], "")}
     ELSE {Result("notfound", coll, "driver not found: " \o id)})

(* ---------------- DriverApplicationService.GetDriver ------------------ *)
\* a cache hit does not end the request: the repository is read anyway
GetDriverIgnoringHit(p, id) ==
    /\ Free(p)
    /\ LET pr == [Begin(p) EXCEPT !.op = "GetDriver", !.id = id]
       IN  IF TrimSpace(id) = ""
           THEN proc' = [Retired EXCEPT ![p] = Done(pr, <<>>, "driver ID is required")]
           ELSE \E o \in CacheGet(cacheKind, redis, id) :
                  proc' = [Retired EXCEPT ![p] =
                      [pr EXCEPT !.calls = <<Call("cache.Get", o.out, o.val)>>,
                                 !.pc = "repo.GetByID"]]
    /\ UNCHANGED <<collection, redis, cacheKind, generated, keyIn, keyOut, ttlVars, clientVars, matchVars, importVars>>

\* entry: the ID check and s.cache.Get
GetDriver(p, id) ==
    /\ Free(p)
    /\ LET pr == [Begin(p) EXCEPT !.op = "GetDriver", !.id = id]
       IN  IF TrimSpace(id) = ""
           THEN proc' = [Retired EXCEPT ![p] = Done(pr, <<>>, "driver ID is required")]
           ELSE \E o \in CacheGet(cacheKind, redis, id) :
                  LET pr2 == [pr EXCEPT !.calls = <<Call("cache.Get", o.out, o.val)>>]
                  IN  proc' = [Retired EXCEPT ![p] =
                          IF o.out = "hit" THEN Done(pr2, o.val, "")
                          ELSE [pr2 EXCEPT !.pc = "repo.GetByID"]]
    /\ UNCHANGED <<collection, redis, cacheKind, generated, keyIn, keyOut, ttlVars, clientVars, matchVars, importVars>>

GetDriverRepoGetByID(p) ==
    /\ proc[p].op = "GetDriver" /\ proc[p].pc = "repo.GetByID"
    /\ \E o \in RepoGetByID(collection, proc[p].id) :
         LET pr == [proc[p] EXCEPT !.calls = Append(@, Call("repo.GetByID", o.out, o.val))]
         IN  proc' = [Retired EXCEPT ![p] =
                 IF o.out = "ok" THEN [pr EXCEPT !.pc = "cache.Set", !.val = o.val]
                 ELSE Done(pr, <<>>, "failed to get driver: " \o o.err)]
    /\ UNCHANGED <<collection, redis, cacheKind, generated, keyIn, keyOut, ttlVars, clientVars, matchVars, importVars>>

\* the per-driver entry is stored without expiry
GetDriverCacheSetNoExpiry(p) ==
    /\ proc[p].op = "GetDriver" /\ proc[p].pc = "cache.Set"
    /\ \E o \in CacheSet(cacheKind, redis, proc[p].id, proc[p].val[1], 0) :
         /\ redis' = o.redis
         /\ proc' = [Retired EXCEPT ![p] =
                Done([proc[p] EXCEPT !.calls =
                         Append(@, Call("cache.Set", o.out, <<proc[p].val[1], 0>>))],
                     proc[p].val, "")]
    /\ UNCHANGED <<collection, cacheKind, generated, keyIn, keyOut, ttlVars, clientVars, matchVars, importVars>>

GetDriverCacheSet(p) ==
    /\ proc[p].op = "GetDriver" /\ proc[p].pc = "cache.Set"
    /\ \E o \in CacheSet(cacheKind, redis, proc[p].id, proc[p].val[1], DriverCacheTTL) :
         /\ redis' = o.redis
         /\ proc' = [Retired EXCEPT ![p] =
                Done([proc[p] EXCEPT !.calls =
                         Append(@, Call("cache.Set", o.out, <<proc[p].val[1], DriverCacheTTL>>))],
                     proc[p].val, "")]
    /\ UNCHANGED <<collection, cacheKind, generated, keyIn, keyOut, ttlVars, clientVars, matchVars, importVars>>

(* ------------ DriverApplicationService.SearchNearbyDrivers ------------ *)
\* validator tags of domain.SearchRequest
ValidSearchRequest(location, radius, reqLimit) ==
    /\ location # ZeroPoint /\ ValidPoint(location)
    /\ radius # 0 /\ radius > 0
    /\ (reqLimit # 0 => reqLimit >= 0)

\* the local variable limit
EffectiveLimit(reqLimit) == IF reqLimit <= 0 THEN DefaultLimit ELSE reqLimit

\* a failing s.cache.GetNearbyDrivers is returned to the caller
SearchNearbyDriversFailingOnCacheError(p, location, radius, reqLimit) ==
    /\ Free(p)
    /\ LET pr == [Begin(p) EXCEPT !.op = "SearchNearbyDrivers", !.location = location,
                                  !.radius = radius, !.reqLimit = reqLimit]
           limit == EffectiveLimit(reqLimit)
       IN  IF ~ValidSearchRequest(location, radius, reqLimit)
           THEN proc' = [Retired EXCEPT ![p] = Done(pr, <<>>, "invalid request")]
           ELSE \E o \in CacheGetNearbyDrivers(cacheKind, redis, Latitude(location),
                             Longitude(location), radius, limit) :
                  LET pr2 == [pr EXCEPT !.limit = limit, !.calls =
                                 <<Call("cache.GetNearbyDrivers", o.out, o.val)>>]
                  IN  proc' = [Retired EXCEPT ![p] =
                          IF o.out = "hit" THEN Done(pr2, o.val, "")
                          ELSE IF o.out = "err"
                          THEN Done(pr2, <<>>, "failed to get nearby drivers from cache")
                          ELSE [pr2 EXCEPT !.pc = "repo.SearchNearby"]]
    /\ UNCHANGED <<collection, redis, cacheKind, generated, keyIn, keyOut, ttlVars, clientVars, matchVars, importVars>>

\* the cache is looked up before the request is validated
SearchNearbyDriversLookupFirst(p, location, radius, reqLimit) ==
    /\ Free(p)
    /\ LET pr == [Begin(p) EXCEPT !.op = "SearchNearbyDrivers", !.location = location,
                                  !.radius = radius, !.reqLimit = reqLimit]
           limit == EffectiveLimit(reqLimit)
       IN  \E o \in CacheGetNearbyDrivers(cacheKind, redis, Latitude(location),
                             Longitude(location), radius, limit) :
              LET pr2 == [pr EXCEPT !.limit = limit, !.calls =
                             <<Call("cache.GetNearbyDrivers", o.out, o.val)>>]
              IN  proc' = [Retired EXCEPT ![p] =
                      IF ~ValidSearchRequest(location, radius, reqLimit)
                      THEN Done(pr2, <<>>, "invalid request")
                      ELSE IF o.out = "hit" THEN Done(pr2, o.val, "")
                      ELSE [pr2 EXCEPT !.pc = "repo.SearchNearby"]]
    /\ UNCHANGED <<collection, redis, cacheKind, generated, keyIn, keyOut, ttlVars, clientVars, matchVars, importVars>>

\* entry: validation, the default limit and s.cache.GetNearbyDrivers
\* a cached list without drivers is taken for a miss
SearchNearbyDriversEmptyIsMiss(p, location, radius, reqLimit) ==
    /\ Free(p)
    /\ LET pr == [Begin(p) EXCEPT !.op = "SearchNearbyDrivers", !.location = location,
                                  !.radius = radius, !.reqLimit = reqLimit]
           limit == EffectiveLimit(reqLimit)
       IN  IF ~ValidSearchRequest(location, radius, reqLimit)
           THEN proc' = [Retired EXCEPT ![p] = Done(pr, <<>>, "invalid request")]
           ELSE \E o \in CacheGetNearbyDrivers(cacheKind, redis, Latitude(location),
                             Longitude(location), radius, limit) :
                  LET pr2 == [pr EXCEPT !.limit = limit, !.calls =
                                 <<Call("cache.GetNearbyDrivers", o.out, o.val)>>]
                  IN  proc' = [Retired EXCEPT ![p] =
                          IF o.out = "hit" /\ Len(o.val[1]) > 0 THEN Done(pr2, o.val, "")
                          ELSE [pr2 EXCEPT !.pc = "repo.SearchNearby"]]
    /\ UNCHANGED <<collection, redis, cacheKind, generated, keyIn, keyOut, ttlVars, clientVars, matchVars, importVars>>

SearchNearbyDrivers(p, location, radius, reqLimit) ==
    /\ Free(p)
    /\ LET pr == [Begin(p) EXCEPT !.op = "SearchNearbyDrivers", !.location = location,
                                  !.radius = radius, !.reqLimit = reqLimit]
           limit == EffectiveLimit(reqLimit)
       IN  IF ~ValidSearchRequest(location, radius, reqLimit)
           THEN proc' = [Retired EXCEPT ![p] = Done(pr, <<>>, "invalid request")]
           ELSE \E o \in CacheGetNearbyDrivers(cacheKind, redis, Latitude(location),
                             Longitude(location), radius, limit) :
                  LET pr2 == [pr EXCEPT !.limit = limit, !.calls =
                                 <<Call("cache.GetNearbyDrivers", o.out, o.val)>>]
                  IN  proc' = [Retired EXCEPT ![p] =
                          IF o.out = "hit" THEN Done(pr2, o.val, "")
                          ELSE [pr2 EXCEPT !.pc = "repo.SearchNearby"]]
    /\ UNCHANGED <<collection, redis, cacheKind, generated, keyIn, keyOut, ttlVars, clientVars, matchVars, importVars>>

SearchRepoSearchNearby(p) ==
    /\ proc[p].op = "SearchNearbyDrivers" /\ proc[p].pc = "repo.SearchNearby"
    /\ \E o \in RepoSearchNearby(collection, proc[p].location, proc[p].radius, proc[p].limit) :
         LET pr == [proc[p] EXCEPT !.calls = Append(@, Call("repo.SearchNearby", o.out, o.val))]
         IN  proc' = [Retired EXCEPT ![p] =
                 IF o.out = "ok" THEN [pr EXCEPT !.pc = "cache.SetNearbyDrivers", !.val = o.val]
                 ELSE Done(pr, <<>>, "failed to search nearby drivers: " \o o.err)]
    /\ UNCHANGED <<collection, redis, cacheKind, generated, keyIn, keyOut, ttlVars, clientVars, matchVars, importVars>>

\* the search returns the repository's result without populating the cache
SearchReturnWithoutCacheSet(p) ==
    /\ proc[p].op = "SearchNearbyDrivers" /\ proc[p].pc = "cache.SetNearbyDrivers"
    /\ proc' = [Retired EXCEPT ![p] = Done(proc[p], proc[p].val, "")]
    /\ UNCHANGED <<collection, redis, cacheKind, generated, keyIn, keyOut, ttlVars, clientVars, matchVars, importVars>>

SearchCacheSetNearbyDrivers(p) ==
    /\ proc[p].op = "SearchNearbyDrivers" /\ proc[p].pc = "cache.SetNearbyDrivers"
    /\ \E o \in CacheSetNearbyDrivers(cacheKind, redis, Latitude(proc[p].location),
                    Longitude(proc[p].location), proc[p].radius, proc[p].limit,
                    proc[p].val[1], NearbyCacheTTL) :
         /\ redis' = o.redis
         /\ proc' = [Retired EXCEPT ![p] =
                Done([proc[p] EXCEPT !.calls =
                         Append(@, Call("cache.SetNearbyDrivers", o.out,
                                        <<proc[p].val[1], NearbyCacheTTL>>))],
                     proc[p].val, "")]
    /\ UNCHANGED <<collection, cacheKind, generated, keyIn, keyOut, ttlVars, clientVars, matchVars, importVars>>

(* --------------- steps shared by the mutating operations -------------- *)
\* a failing s.cache.Delete is returned to the caller
CacheDeleteStepPropagating(p, op) ==
    /\ proc[p].op = op /\ proc[p].pc = "cache.Delete"
    /\ \E o \in CacheDelete(cacheKind, redis, proc[p].id) :
         /\ redis' = o.redis
         /\ proc' = IF o.out = "ok"
                    THEN Step(p, "cache.InvalidateNearbyCache", Call("cache.Delete", o.out, <<>>))
                    ELSE [Retired EXCEPT ![p] =
                             Done([proc[p] EXCEPT !.calls =
                                      Append(@, Call("cache.Delete", o.out, <<>>))],
                                  <<>>, "failed to delete driver from cache")]
    /\ UNCHANGED <<collection, cacheKind, generated, keyIn, keyOut, ttlVars, clientVars, matchVars, importVars>>

\* s.cache.Delete(ctx, id) of operation op; a failure is only logged
CacheDeleteStep(p, op) ==
    /\ proc[p].op = op /\ proc[p].pc = "cache.Delete"
    /\ \E o \in CacheDelete(cacheKind, redis, proc[p].id) :
         /\ redis' = o.redis
         /\ proc' = Step(p, "cache.InvalidateNearbyCache", Call("cache.Delete", o.out, <<>>))
    /\ UNCHANGED <<collection, cacheKind, generated, keyIn, keyOut, ttlVars, clientVars, matchVars, importVars>>

\* the operation returns without invalidating the nearby entries
InvalidateStepSkipped(p, op, ret) ==
    /\ proc[p].op = op /\ proc[p].pc = "cache.InvalidateNearbyCache"
    /\ proc' = [Retired EXCEPT ![p] = Done(proc[p], ret, "")]
    /\ UNCHANGED <<collection, redis, cacheKind, generated, keyIn, keyOut, ttlVars, clientVars, matchVars, importVars>>

\* s.cache.InvalidateNearbyCache(ctx) of operation op, then return ret; the
\* recorded call notes the keys the call removed
InvalidateStep(p, op, ret) ==
    /\ proc[p].op = op /\ proc[p].pc = "cache.InvalidateNearbyCache"
    /\ \E o \in CacheInvalidateNearbyCache(cacheKind, redis) :
         /\ redis' = o.redis
         /\ proc' = [Retired EXCEPT ![p] =
                Done([proc[p] EXCEPT !.calls =
                         Append(@, Call("cache.InvalidateNearbyCache", o.out,
                                        <<DOMAIN redis \ DOMAIN o.redis>>))],
                     ret, "")]
    /\ UNCHANGED <<collection, cacheKind, generated, keyIn, keyOut, ttlVars, clientVars, matchVars, importVars>>

\* the request goes on to its cache step whatever the repository answered
AfterRepoContinuing(pr, c, o, pc, val, msg) ==
    [pr EXCEPT !.calls = Append(@, c), !.pc = pc, !.val = val]

\* the request p after a repository write: on to pc, or return the error
AfterRepo(pr, c, o, pc, val, msg) ==
    LET pr2 == [pr EXCEPT !.calls = Append(@, c)]
    IN  IF o.out = "ok" THEN [pr2 EXCEPT !.pc = pc, !.val = val]
        ELSE Done(pr2, <<>>, msg \o o.err)

(* --------------- DriverApplicationService.CreateDriver ---------------- *)
NextObjectID(n) == "oid" \o ToString(n + 1)

\* entry: validation and s.repo.Create
CreateDriver(p, id, location) ==
    /\ Free(p)
    /\ LET pr == [Begin(p) EXCEPT !.op = "CreateDriver", !.location = location,
                                  !.id = IF id # "" THEN TrimSpace(id) ELSE ""]
           driver == Driver(IF pr.id = "" THEN NextObjectID(generated) ELSE pr.id, location)
       IN  IF ~(location # ZeroPoint /\ ValidPoint(location))
           THEN /\ proc' = [Retired EXCEPT ![p] = Done(pr, <<>>, "invalid request")]
                /\ UNCHANGED <<collection, generated>>
           ELSE /\ pr.id = "" => generated < MaxGenerated
                /\ \E o \in RepoCreate(collection, driver) :
                     /\ collection' = o.val
                     /\ generated' = IF pr.id = "" THEN generated + 1 ELSE generated
                     /\ proc' = [Retired EXCEPT ![p] =
                            AfterRepo([pr EXCEPT !.id = driver.ID],
                                      Call("repo.Create", o.out, <<driver>>), o,
                                      "cache.Set", <<driver>>, "failed to create driver: ")]
    /\ UNCHANGED <<redis, cacheKind, keyIn, keyOut, ttlVars, clientVars, matchVars, importVars>>

CreateDriverCacheSet(p) ==
    /\ proc[p].op = "CreateDriver" /\ proc[p].pc = "cache.Set"
    /\ \E o \in CacheSet(cacheKind, redis, proc[p].val[1].ID, proc[p].val[1], DriverCacheTTL) :
         /\ redis' = o.redis
         /\ proc' = Step(p, "cache.InvalidateNearbyCache",
                         Call("cache.Set", o.out, <<proc[p].val[1], DriverCacheTTL>>))
    /\ UNCHANGED <<collection, cacheKind, generated, keyIn, keyOut, ttlVars, clientVars, matchVars, importVars>>

CreateDriverInvalidate(p) == InvalidateStep(p, "CreateDriver", proc[p].val)

(* ------------ DriverApplicationService.BatchCreateDrivers ------------- *)
\* validator tags of domain.BatchCreateRequest: required,min=1,dive
ValidBatch(batch) ==
    /\ Len(batch) >= 1
    /\ \A i \in 1..Len(batch) :
         batch[i].Location # ZeroPoint /\ ValidPoint(batch[i].Location)

EmptyIDs(batch, n) == Cardinality({i \in 1..n : batch[i].ID = ""})

\* the drivers of a batch once BatchCreate has filled in the missing IDs
WithObjectIDs(batch, gen) ==
    [i \in 1..Len(batch) |->
        IF batch[i].ID = ""
        THEN Driver(NextObjectID(gen + EmptyIDs(batch, i - 1)), batch[i].Location)
        ELSE Driver(batch[i].ID, batch[i].Location)]

\* entry: validation and s.repo.BatchCreate
BatchCreateDrivers(p, req) ==
    /\ Free(p)
    /\ LET batch == [i \in 1..Len(req) |->
                        [ID |-> IF req[i].ID # "" THEN TrimSpace(req[i].ID) ELSE "",
                         Location |-> req[i].Location]]
           pr == [Begin(p) EXCEPT !.op = "BatchCreateDrivers", !.batch = batch]
           drivers == WithObjectIDs(batch, generated)
       IN  IF ~ValidBatch(req)
           THEN /\ proc' = [Retired EXCEPT ![p] = Done(pr, <<>>, "invalid request")]
                /\ UNCHANGED <<collection, generated>>
           ELSE /\ generated + EmptyIDs(batch, Len(batch)) <= MaxGenerated
                /\ \E o \in RepoBatchCreate(collection, drivers) :
                     /\ collection' = o.val
                     /\ generated' = generated + EmptyIDs(batch, Len(batch))
                     /\ proc' = [Retired EXCEPT ![p] =
                            AfterRepo(pr, Call("repo.BatchCreate", o.out, <<drivers>>), o,
                                      "cache.InvalidateNearbyCache", <<drivers>>,
                                      "failed to batch create drivers: ")]
    /\ UNCHANGED <<redis, cacheKind, keyIn, keyOut, ttlVars, clientVars, matchVars, importVars>>

BatchCreateInvalidate(p) == InvalidateStep(p, "BatchCreateDrivers", proc[p].val)

(* --------------- DriverApplicationService.DeleteDriver ---------------- *)
\* entry: the ID check and s.repo.Delete
DeleteDriver(p, id) ==
    /\ Free(p)
    /\ LET pr == [Begin(p) EXCEPT !.op = "DeleteDriver", !.id = id]
       IN  IF TrimSpace(id) = ""
           THEN /\ proc' = [Retired EXCEPT ![p] = Done(pr, <<>>, "driver ID is required")]
                /\ UNCHANGED collection
           ELSE \E o \in RepoDelete(collection, id) :
                  /\ collection' = o.val
                  /\ proc' = [Retired EXCEPT ![p] =
                         AfterRepo(pr, Call("repo.Delete", o.out, <<>>), o,
                                   "cache.Delete", <<>>, "failed to delete driver: ")]
    /\ UNCHANGED <<redis, cacheKind, generated, keyIn, keyOut, ttlVars, clientVars, matchVars, importVars>>

\* DeleteDriver goes straight to the nearby invalidation
DeleteDriverCacheDeleteSkipped(p) ==
    /\ proc[p].op = "DeleteDriver" /\ proc[p].pc = "cache.Delete"
    /\ proc' = [Retired EXCEPT ![p] = [proc[p] EXCEPT !.pc = "cache.InvalidateNearbyCache"]]
    /\ UNCHANGED <<collection, redis, cacheKind, generated, keyIn, keyOut, ttlVars, clientVars, matchVars, importVars>>

DeleteDriverCacheDelete(p) == CacheDeleteStep(p, "DeleteDriver")

DeleteDriverInvalidate(p) == InvalidateStep(p, "DeleteDriver", <<>>)

(* ----------- DriverApplicationService.UpdateDriverLocation ------------ *)
\* s.repo.Update(driver) of request pr
RepoUpdateStep(p, pr, msg) ==
    \E o \in RepoUpdate(collection, pr.val[1]) :
        /\ collection' = o.val
        /\ proc' = [Retired EXCEPT ![p] =
               AfterRepo(pr, Call("repo.Update", o.out, pr.val), o,
                         "cache.Delete", pr.val, msg)]

\* entry: validation and s.repo.GetByID
UpdateDriverLocation(p, id, location) ==
    /\ Free(p)
    /\ LET pr == [Begin(p) EXCEPT !.op = "UpdateDriverLocation", !.id = id,
                                  !.location = location]
       IN  IF TrimSpace(id) = ""
           THEN proc' = [Retired EXCEPT ![p] = Done(pr, <<>>, "driver ID is required")]
           ELSE IF ~ValidPoint(location)
           THEN proc' = [Retired EXCEPT ![p] = Done(pr, <<>>, "invalid location")]
           ELSE \E o \in RepoGetByID(collection, id) :
                  proc' = [Retired EXCEPT ![p] =
                      AfterRepo(pr, Call("repo.GetByID", o.out, o.val), o, "repo.Update",
                                IF o.out = "ok"
                                THEN <<[o.val[1] EXCEPT !.Location = location]>> ELSE <<>>,
                                "failed to get driver: ")]
    /\ UNCHANGED <<collection, redis, cacheKind, generated, keyIn, keyOut, ttlVars, clientVars, matchVars, importVars>>

UpdateLocationRepoUpdate(p) ==
    /\ proc[p].op = "UpdateDriverLocation" /\ proc[p].pc = "repo.Update"
    /\ RepoUpdateStep(p, proc[p], "failed to update driver location: ")
    /\ UNCHANGED <<redis, cacheKind, generated, keyIn, keyOut, ttlVars, clientVars, matchVars, importVars>>

UpdateLocationCacheDelete(p) == CacheDeleteStep(p, "UpdateDriverLocation")

UpdateLocationInvalidate(p) == InvalidateStep(p, "UpdateDriverLocation", <<>>)

(* --------------- DriverApplicationService.UpdateDriver ---------------- *)
\* entry: validation and s.repo.Update
UpdateDriver(p, id, location) ==
    /\ Free(p)
    /\ LET pr == [Begin(p) EXCEPT !.op = "UpdateDriver", !.id = id, !.location = location,
                                  !.val = <<Driver(id, location)>>]
       IN  IF ~(location # ZeroPoint /\ ValidPoint(location))
           THEN /\ proc' = [Retired EXCEPT ![p] = Done(pr, <<>>, "invalid driver")]
                /\ UNCHANGED collection
           ELSE RepoUpdateStep(p, pr, "failed to update driver: ")
    /\ UNCHANGED <<redis, cacheKind, generated, keyIn, keyOut, ttlVars, clientVars, matchVars, importVars>>

UpdateDriverCacheDelete(p) == CacheDeleteStep(p, "UpdateDriver")

UpdateDriverInvalidate(p) == InvalidateStep(p, "UpdateDriver", <<>>)

(* ------------------------------ environment --------------------------- *)
\* time passes in Redis
Tick ==
    /\ DOMAIN redis # {}
    /\ redis' = RedisExpire(redis)
    /\ proc' = Finished
    /\ UNCHANGED <<collection, cacheKind, generated, keyIn, keyOut, ttlVars, clientVars, matchVars, importVars>>

NoQuery == [lat |-> 0, lon |-> 0, radius |-> 0, limit |-> 0]

Init ==
    /\ collection = <<>>
    /\ redis = <<>>
    /\ cacheKind \in {"redis", "noop"}
    /\ generated = 0
    /\ proc = [p \in Procs |-> IdleProc]
    /\ keyIn = <<NoQuery, NoQuery>>
    /\ keyOut = <<>>
    /\ NoTTL /\ NoClient /\ NoMatch /\ NoImport

Next ==
    \/ \E p \in Procs :
        \/ \E id \in IDInputs : GetDriver(p, id)
        \/ GetDriverRepoGetByID(p)
        \/ GetDriverCacheSet(p)
        \/ \E q \in SearchInputs : SearchNearbyDrivers(p, q.Location, q.Radius, q.Limit)
        \/ SearchRepoSearchNearby(p)
        \/ SearchCacheSetNearbyDrivers(p)
        \/ \E d \in DriverInputs : CreateDriver(p, d.ID, d.Location)
        \/ CreateDriverCacheSet(p)
        \/ CreateDriverInvalidate(p)
        \/ \E b \in BatchInputs : BatchCreateDrivers(p, b)
        \/ BatchCreateInvalidate(p)
        \/ \E id \in IDInputs : DeleteDriver(p, id)
        \/ DeleteDriverCacheDelete(p)
        \/ DeleteDriverInvalidate(p)
        \/ \E d \in UpdateInputs : UpdateDriverLocation(p, d.ID, d.Location)
        \/ UpdateLocationRepoUpdate(p)
        \/ UpdateLocationCacheDelete(p)
        \/ UpdateLocationInvalidate(p)
        \/ \E d \in UpdateInputs : UpdateDriver(p, d.ID, d.Location)
        \/ UpdateDriverCacheDelete(p)
        \/ UpdateDriverInvalidate(p)
    \/ Tick

Spec == Init /\ [][Next]_vars

(* ---------------- the nearby key as a function of the query ----------- *)
KeyCoords == (0 - MaxKeyCoord)..MaxKeyCoord
KeyQueries ==
    [lat : KeyCoords, lon : KeyCoords, radius : 1..MaxKeyRadius, limit : {1, DefaultLimit}]

KeyInit ==
    /\ collection = <<>>
    /\ redis = <<>>
    /\ cacheKind = "redis"
    /\ generated = 0
    /\ proc = [p \in Procs |-> IdleProc]
    /\ keyIn \in KeyQueries \X KeyQueries
    /\ keyOut = <<>>
    /\ NoTTL /\ NoClient /\ NoMatch /\ NoImport

\* the keys GetNearbyDrivers and SetNearbyDrivers derive for the two queries
DeriveKeys ==
    /\ keyOut = <<>>
    /\ keyOut' = <<generateNearbyKey(keyIn[1].lat, keyIn[1].lon, keyIn[1].radius, keyIn[1].limit),
                   generateNearbyKey(keyIn[2].lat, keyIn[2].lon, keyIn[2].radius, keyIn[2].limit)>>
    /\ UNCHANGED <<collection, redis, cacheKind, generated, proc, keyIn, ttlVars, clientVars, matchVars, importVars>>

KeyNext == DeriveKeys

SpecKey == KeyInit /\ [][KeyNext]_vars


(* ------------------------ DriverHandler (HTTP) ------------------------ *)
StatusOK == 200
StatusCreated == 201
StatusBadRequest == 400
StatusNotFound == 404
StatusInternalServerError == 500

\* the error texts with which the service rejects a request at validation
ValidationErrors ==
    {"driver ID is required", "invalid request", "invalid location", "invalid driver"}

\* a handler that answers a validation error of the service with 400
HandlerStatusBadRequestOnValidation(pr) ==
    IF pr.err \in ValidationErrors THEN StatusBadRequest
    ELSE IF pr.err # "" THEN StatusInternalServerError
    ELSE IF pr.op \in {"CreateDriver", "BatchCreateDrivers"} THEN StatusCreated
    ELSE StatusOK

\* the status the handler of operation pr.op writes once the service call
\* pr has returned
HandlerStatus(pr) ==
    IF pr.op = "GetDriver"
    THEN IF pr.err # "" THEN StatusNotFound ELSE StatusOK
    ELSE IF pr.op \in {"CreateDriver", "BatchCreateDrivers"}
    THEN IF pr.err # "" THEN StatusInternalServerError ELSE StatusCreated
    ELSE IF pr.err # "" THEN StatusInternalServerError ELSE StatusOK

(* ===================== expiry of cache entries ======================== *)
\* the cache adapter on its own: entries are written with the TTLs of the
\* service, time passes, and both kinds of lookup are made
TTLDrivers == {Driver("d1", P0), Driver("d1", P1)}

TTLQueries == {q \in SearchInputs : ValidSearchRequest(q.Location, q.Radius, q.Limit)}

TTLLists == {<<>>, <<DriverWithDistance(Driver("d1", P0), Distance(Q0, P0))>>}

TTLNearbyKey(q) ==
    generateNearbyKey(Latitude(q.Location), Longitude(q.Location), q.Radius,
                      EffectiveLimit(q.Limit))

TTLInit ==
    /\ collection = <<>>
    /\ redis = <<>>
    /\ cacheKind = "redis"
    /\ generated = 0
    /\ proc = [p \in Procs |-> IdleProc]
    /\ keyIn = <<NoQuery, NoQuery>>
    /\ keyOut = <<>>
    /\ expired = {}
    /\ lookup = <<>>
    /\ NoClient /\ NoMatch /\ NoImport

\* RedisDriverCache.Set with the TTL GetDriver passes
TTLSet(d) ==
    /\ \E o \in CacheSet(cacheKind, redis, d.ID, d, DriverCacheTTL) :
         /\ redis' = o.redis
         /\ expired' = IF o.out = "ok" THEN expired \ {generateDriverKey(d.ID)} ELSE expired
    /\ UNCHANGED <<collection, cacheKind, generated, proc, keyIn, keyOut, lookup, clientVars, matchVars, importVars>>

\* RedisDriverCache.SetNearbyDrivers with the TTL SearchNearbyDrivers passes
TTLSetNearby(q, drivers) ==
    /\ \E o \in CacheSetNearbyDrivers(cacheKind, redis, Latitude(q.Location),
                                      Longitude(q.Location), q.Radius,
                                      EffectiveLimit(q.Limit), drivers, NearbyCacheTTL) :
         /\ redis' = o.redis
         /\ expired' = IF o.out = "ok" THEN expired \ {TTLNearbyKey(q)} ELSE expired
    /\ UNCHANGED <<collection, cacheKind, generated, proc, keyIn, keyOut, lookup, clientVars, matchVars, importVars>>

\* time passes: the keys whose TTL runs out now are expired
TTLTick ==
    /\ DOMAIN redis # {}
    /\ redis' = RedisExpire(redis)
    /\ expired' = expired \cup {k \in DOMAIN redis : redis[k].ttl = 1}
    /\ UNCHANGED <<collection, cacheKind, generated, proc, keyIn, keyOut, lookup, clientVars, matchVars, importVars>>

\* RedisDriverCache.Get
TTLGet(id) ==
    /\ \E o \in CacheGet(cacheKind, redis, id) :
         lookup' = [call |-> "cache.Get", key |-> generateDriverKey(id), out |-> o.out,
                    val |-> o.val, expired |-> generateDriverKey(id) \in expired]
    /\ UNCHANGED <<collection, redis, cacheKind, generated, proc, keyIn, keyOut, expired,
                   clientVars, matchVars, importVars>>

\* RedisDriverCache.GetNearbyDrivers
TTLGetNearby(q) ==
    /\ \E o \in CacheGetNearbyDrivers(cacheKind, redis, Latitude(q.Location),
                                      Longitude(q.Location), q.Radius,
                                      EffectiveLimit(q.Limit)) :
         lookup' = [call |-> "cache.GetNearbyDrivers", key |-> TTLNearbyKey(q),
                    out |-> o.out, val |-> o.val, expired |-> TTLNearbyKey(q) \in expired]
    /\ UNCHANGED <<collection, redis, cacheKind, generated, proc, keyIn, keyOut, expired,
                   clientVars, matchVars, importVars>>

TTLNext ==
    \/ \E d \in TTLDrivers : TTLSet(d)
    \/ \E q \in TTLQueries : \E drivers \in TTLLists : TTLSetNearby(q, drivers)
    \/ TTLTick
    \/ \E id \in DriverIDs : TTLGet(id)
    \/ \E q \in TTLQueries : TTLGetNearby(q)

SpecTTL == TTLInit /\ [][TTLNext]_vars

(* ================== the radius query of the repository ================= *)
\* MongoDriverRepository.SearchNearby called directly, as its test does, on
\* collections of several drivers, some of them equidistant from the centre
NearDriverIDs == {"s1", "s2", "s3"}

NearPoints == {NewPoint(0, 0), NewPoint(2, 0), NewPoint(3, 0), NewPoint(4, 1)}

NearRadii == {1, 2}

NearLimits == {-2, 0, 1, 2, DefaultLimit}

NearInit ==
    /\ collection = <<>>
    /\ redis = <<>>
    /\ cacheKind = "noop"
    /\ generated = 0
    /\ proc = [p \in Procs |-> IdleProc]
    /\ keyIn = <<NoQuery, NoQuery>>
    /\ keyOut = <<>>
    /\ NoTTL /\ NoClient /\ NoMatch /\ NoImport

\* repo.Create of a driver
NearCreate(id, location) ==
    /\ \E o \in RepoCreate(collection, Driver(id, location)) : collection' = o.val
    /\ proc' = Finished
    /\ UNCHANGED <<redis, cacheKind, generated, keyIn, keyOut, ttlVars, clientVars, matchVars, importVars>>

\* repo.SearchNearby(center, radius, limit)
NearSearch(p, center, radius, limit) ==
    /\ Free(p)
    /\ \E o \in RepoSearchNearby(collection, center, radius, limit) :
         proc' = [Retired EXCEPT ![p] =
             Done([Begin(p) EXCEPT !.op = "repo.SearchNearby", !.location = center,
                                   !.radius = radius, !.limit = limit,
                                   !.calls = <<Call("repo.SearchNearby", o.out, o.val)>>],
                  o.val, o.err)]
    /\ UNCHANGED <<collection, redis, cacheKind, generated, keyIn, keyOut, ttlVars, clientVars, matchVars, importVars>>

NearNext ==
    \/ \E id \in NearDriverIDs : \E location \in NearPoints : NearCreate(id, location)
    \/ \E p \in Procs : \E radius \in NearRadii : \E limit \in NearLimits :
          NearSearch(p, Q0, radius, limit)

SpecNear == NearInit /\ [][NearNext]_vars

(* ============== MongoDriverRepository with its timestamps ============== *)
\* The repository called directly, as its tests do, with the CreatedAt and
\* UpdatedAt fields of domain.Driver kept.  Times are the values of
\* time.Now(), 1..MaxTime; 0 is the zero time.
RepoIDs == {"d1", "d2"}

RepoTimes == 1..MaxTime

ZeroTime == 0

\* domain.Driver with its timestamps
StoredDriver(id, location, createdAt, updatedAt) ==
    [ID |-> id, Location |-> location, CreatedAt |-> createdAt, UpdatedAt |-> updatedAt]

\* bson tags of domain.Driver: _id, location, created_at, updated_at
ToStoredDocument(driver) ==
    [_id |-> driver.ID, location |-> driver.Location,
     created_at |-> driver.CreatedAt, updated_at |-> driver.UpdatedAt]

FromStoredDocument(doc) ==
    StoredDriver(doc._id, doc.location, doc.created_at, doc.updated_at)

\* a repository that inserts the drivers as it received them
StampLeavingTimes(driver, now) ==
    StoredDriver(driver.ID, driver.Location, ZeroTime, ZeroTime)

\* driver.CreatedAt = now; driver.UpdatedAt = now
Stamp(driver, now) == StoredDriver(driver.ID, driver.Location, now, now)

\* MongoDriverRepository.GetByID
StoreGetByID(coll, id) ==
    {Result("err", <<>>, "failed to get driver: db error")} \cup
    (IF id \in DOMAIN coll
     THEN {Result("ok", <<FromStoredDocument(coll[id])>>, "")}
     ELSE {Result("notfound", <<>>, "driver not found: " \o id)})

\* MongoDriverRepository.Create at time now, the ID being generated when empty
StoreCreate(coll, driver, gen, now) ==
    LET d == Stamp([driver EXCEPT !.ID = IF @ = "" THEN NextObjectID(gen) ELSE @], now)
    IN  {Result("err", coll, "failed to insert driver: db error")} \cup
        (IF d.ID \in DOMAIN coll
         THEN {Result("err", coll, "failed to insert driver: duplicate key")}
         ELSE {Result("ok", [k \in DOMAIN coll \cup {d.ID} |->
                                IF k = d.ID THEN ToStoredDocument(d) ELSE coll[k]], "")})

\* an update that inserts the driver when no document has its ID
StoreUpdateUpserting(coll, driver, now) ==
    {Result("ok", [k \in DOMAIN coll \cup {driver.ID} |->
                      IF k = driver.ID
                      THEN ToStoredDocument([driver EXCEPT !.UpdatedAt = now])
                      ELSE coll[k]], "")}

\* MongoDriverRepository.Update at time now: UpdateOne with $set of the driver
StoreUpdate(coll, driver, now) ==
    {Result("err", coll, "failed to update driver: db error")} \cup
    (IF driver.ID \in DOMAIN coll
     THEN {Result("ok", [coll EXCEPT ![driver.ID] =
                            ToStoredDocument([driver EXCEPT !.UpdatedAt = now])], "")}
     ELSE {Result("notfound", coll, "driver not found: " \o driver.ID)})

\* the slice BatchCreate leaves to its caller: IDs generated, times set
Stamped(drivers, gen, now) ==
    [i \in 1..Len(drivers) |-> Stamp(WithObjectIDs(drivers, gen)[i], now)]

InsertFirstStored(coll, drivers, n) ==
    [k \in DOMAIN coll \cup {drivers[i].ID : i \in 1..n} |->
        IF \E i \in 1..n : drivers[i].ID = k
        THEN ToStoredDocument(drivers[CHOOSE i \in 1..n : drivers[i].ID = k])
        ELSE coll[k]]

\* a repository that hands an empty batch to InsertMany, which refuses it
StoreBatchCreateWithoutLenCheck(coll, drivers, gen, now) ==
    LET ds == Stamped(drivers, gen, now)
    IN  {Result("err", InsertFirstStored(coll, ds, n), "failed to batch insert drivers") :
            n \in {m \in 0..(Len(ds) - 1) : Insertable(coll, ds, m)}}
        \cup (IF Len(ds) = 0
              THEN {Result("err", coll, "failed to batch insert drivers")}
              ELSE IF Insertable(coll, ds, Len(ds))
              THEN {Result("ok", InsertFirstStored(coll, ds, Len(ds)), "")}
              ELSE {})

\* MongoDriverRepository.BatchCreate at time now: the outcomes of an ordered
\* InsertMany, which stops at the first document it cannot insert
StoreBatchCreate(coll, drivers, gen, now) ==
    LET ds == Stamped(drivers, gen, now)
    IN  IF Len(drivers) = 0 THEN {Result("ok", coll, "")}
        ELSE {Result("err", InsertFirstStored(coll, ds, n), "failed to batch insert drivers") :
                 n \in {m \in 0..(Len(ds) - 1) : Insertable(coll, ds, m)}}
             \cup (IF Insertable(coll, ds, Len(ds))
                   THEN {Result("ok", InsertFirstStored(coll, ds, Len(ds)), "")}
                   ELSE {})

\* the drivers the repository is called with
RepoNewDrivers == {Driver(id, P0) : id \in RepoIDs \cup {""}}

RepoBatches ==
    {<<>>} \cup {<<d>> : d \in RepoNewDrivers}
           \cup {<<d, e>> : d \in RepoNewDrivers, e \in RepoNewDrivers}

RepoUpdates == {StoredDriver(id, P1, t, t) : id \in RepoIDs, t \in {1}}

\* the record of a repository call that has returned
RepoCall(name, id, batch, o) ==
    [Finished EXCEPT ![1] =
        Done([IdleProc EXCEPT !.op = name, !.id = id, !.batch = batch,
                              !.calls = <<Call(name, o.out, <<>>)>>],
             <<>>, o.err)]

repoIdleVars == <<redis, cacheKind, keyIn, keyOut, ttlVars, clientVars, matchVars, importVars>>

RepoInit ==
    /\ collection = <<>>
    /\ redis = <<>>
    /\ cacheKind = "noop"
    /\ generated = 0
    /\ proc = [p \in Procs |-> IdleProc]
    /\ keyIn = <<NoQuery, NoQuery>>
    /\ keyOut = <<>>
    /\ NoTTL /\ NoClient /\ NoMatch /\ NoImport

\* repo.Create(driver)
RepoCreateCall(driver, now) ==
    /\ generated + (IF driver.ID = "" THEN 1 ELSE 0) <= MaxRepoGenerated
    /\ \E o \in StoreCreate(collection, driver, generated, now) :
         /\ collection' = o.val
         /\ proc' = RepoCall("repo.Create", driver.ID, <<>>, o)
    /\ generated' = generated + (IF driver.ID = "" THEN 1 ELSE 0)
    /\ UNCHANGED repoIdleVars

\* repo.BatchCreate(drivers)
RepoBatchCreateCall(drivers, now) ==
    /\ generated + EmptyIDs(drivers, Len(drivers)) <= MaxRepoGenerated
    /\ \E o \in StoreBatchCreate(collection, drivers, generated, now) :
         /\ collection' = o.val
         /\ proc' = RepoCall("repo.BatchCreate", "",
                             IF Len(drivers) = 0 THEN <<>>
                             ELSE Stamped(drivers, generated, now), o)
    /\ generated' = generated + EmptyIDs(drivers, Len(drivers))
    /\ UNCHANGED repoIdleVars

\* repo.GetByID(id)
RepoGetByIDCall(id) ==
    /\ \E o \in StoreGetByID(collection, id) :
         proc' = RepoCall("repo.GetByID", id, <<>>, o)
    /\ UNCHANGED <<collection, generated>>
    /\ UNCHANGED repoIdleVars

\* repo.Update(driver)
RepoUpdateCall(driver, now) ==
    /\ \E o \in StoreUpdate(collection, driver, now) :
         /\ collection' = o.val
         /\ proc' = RepoCall("repo.Update", driver.ID, <<>>, o)
    /\ UNCHANGED generated
    /\ UNCHANGED repoIdleVars

\* repo.Delete(id)
RepoDeleteCall(id) ==
    /\ \E o \in RepoDelete(collection, id) :
         /\ collection' = o.val
         /\ proc' = RepoCall("repo.Delete", id, <<>>, o)
    /\ UNCHANGED generated
    /\ UNCHANGED repoIdleVars

RepoNext ==
    \/ \E d \in RepoNewDrivers : \E now \in RepoTimes : RepoCreateCall(d, now)
    \/ \E b \in RepoBatches : \E now \in RepoTimes : RepoBatchCreateCall(b, now)
    \/ \E id \in RepoIDs : RepoGetByIDCall(id)
    \/ \E d \in RepoUpdates : \E now \in RepoTimes : RepoUpdateCall(d, now)
    \/ \E id \in RepoIDs : RepoDeleteCall(id)

SpecRepo == RepoInit /\ [][RepoNext]_vars

(* ============ concurrent updates of one stored driver ================== *)
\* the stored record before the updates: d1, created at time 1
UpdateBase == ToStoredDocument(StoredDriver("d1", P0, 1, 1))

\* the locations of PUT /drivers/:id/location
UpdateLocations == {P1, Q0, BadPoint}

\* the bodies of PUT /drivers/:id; created_at is decoded from the body and is
\* the zero time when the body has none
UpdateBodies ==
    {StoredDriver(id, l, c, ZeroTime) : id \in RepoIDs, l \in {P1, BadPoint}, c \in {ZeroTime, 1}}

UpdateInit ==
    /\ collection = [id \in {"d1"} |-> UpdateBase]
    /\ redis = <<>>
    /\ cacheKind = "redis"
    /\ generated = 0
    /\ proc = [p \in Procs |-> IdleProc]
    /\ keyIn = <<NoQuery, NoQuery>>
    /\ keyOut = <<>>
    /\ NoTTL /\ NoClient /\ NoMatch /\ NoImport

updateIdleVars == <<cacheKind, generated, keyIn, keyOut, ttlVars, clientVars, matchVars, importVars>>

\* request p returns err
UpdateReturns(pr, err) == [pr EXCEPT !.pc = "done", !.err = err]

\* DriverApplicationService.UpdateDriverLocation, entry: the checks of the
\* arguments, s.repo.GetByID, and the new location and time set in the
\* driver that was read
TimedUpdateDriverLocation(p, id, location, now) ==
    /\ proc[p].pc = "idle"
    /\ LET pr == [IdleProc EXCEPT !.op = "UpdateDriverLocation", !.id = id,
                                  !.location = location]
       IN  IF TrimSpace(id) = ""
           THEN proc' = [proc EXCEPT ![p] = UpdateReturns(pr, "driver ID is required")]
           ELSE IF ~ValidPoint(location)
           THEN proc' = [proc EXCEPT ![p] = UpdateReturns(pr, "invalid location")]
           ELSE \E o \in StoreGetByID(collection, id) :
                  proc' = [proc EXCEPT ![p] =
                      IF o.out = "ok"
                      THEN [pr EXCEPT !.pc = "repo.Update",
                                      !.val = <<[o.val[1] EXCEPT !.Location = location,
                                                                 !.UpdatedAt = now]>>]
                      ELSE UpdateReturns(pr, "failed to get driver: " \o o.err)]
    /\ UNCHANGED <<collection, redis>>
    /\ UNCHANGED updateIdleVars

\* s.repo.Update(driver) of UpdateDriverLocation
TimedLocationRepoUpdate(p, now) ==
    /\ proc[p].op = "UpdateDriverLocation" /\ proc[p].pc = "repo.Update"
    /\ \E o \in StoreUpdate(collection, proc[p].val[1], now) :
         /\ collection' = o.val
         /\ proc' = [proc EXCEPT ![p] =
                IF o.out = "ok" THEN [@ EXCEPT !.pc = "cache.Delete"]
                ELSE UpdateReturns(@, "failed to update driver location: " \o o.err)]
    /\ UNCHANGED redis
    /\ UNCHANGED updateIdleVars

\* DriverApplicationService.UpdateDriver, entry: validation and s.repo.Update
TimedUpdateDriver(p, driver, now) ==
    /\ proc[p].pc = "idle"
    /\ LET pr == [IdleProc EXCEPT !.op = "UpdateDriver", !.id = driver.ID,
                                  !.location = driver.Location, !.val = <<driver>>]
       IN  IF ~(driver.Location # ZeroPoint /\ ValidPoint(driver.Location))
           THEN /\ proc' = [proc EXCEPT ![p] = UpdateReturns(pr, "invalid driver")]
                /\ UNCHANGED collection
           ELSE \E o \in StoreUpdate(collection, driver, now) :
                  /\ collection' = o.val
                  /\ proc' = [proc EXCEPT ![p] =
                         IF o.out = "ok" THEN [pr EXCEPT !.pc = "cache.Delete"]
                         ELSE UpdateReturns(pr, "failed to update driver: " \o o.err)]
    /\ UNCHANGED redis
    /\ UNCHANGED updateIdleVars

\* s.cache.Delete(ctx, id) of either update; a failure is only logged
TimedCacheDelete(p) ==
    /\ proc[p].pc = "cache.Delete"
    /\ \E o \in CacheDelete(cacheKind, redis, proc[p].id) :
         /\ redis' = o.redis
         /\ proc' = [proc EXCEPT ![p] =
                [@ EXCEPT !.pc = "cache.InvalidateNearbyCache",
                          !.calls = Append(@, Call("cache.Delete", o.out, <<>>))]]
    /\ UNCHANGED collection
    /\ UNCHANGED updateIdleVars

\* s.cache.InvalidateNearbyCache(ctx) of either update, then return nil
TimedInvalidate(p) ==
    /\ proc[p].pc = "cache.InvalidateNearbyCache"
    /\ \E o \in CacheInvalidateNearbyCache(cacheKind, redis) :
         /\ redis' = o.redis
         /\ proc' = [proc EXCEPT ![p] =
                UpdateReturns([@ EXCEPT !.calls =
                                  Append(@, Call("cache.InvalidateNearbyCache", o.out, <<>>))],
                              "")]
    /\ UNCHANGED collection
    /\ UNCHANGED updateIdleVars

\* each request slot serves one update
UpdateNext ==
    \E p \in Procs :
        \/ \E id \in IDInputs : \E l \in UpdateLocations : \E now \in RepoTimes :
             TimedUpdateDriverLocation(p, id, l, now)
        \/ \E now \in RepoTimes : TimedLocationRepoUpdate(p, now)
        \/ \E d \in UpdateBodies : \E now \in RepoTimes : TimedUpdateDriver(p, d, now)
        \/ TimedCacheDelete(p)
        \/ TimedInvalidate(p)

SpecUpdate == UpdateInit /\ [][UpdateNext]_vars

(* ================= DriverLocationClient (matching service) ============= *)
StateClosed == "closed"
StateHalfOpen == "half-open"
StateOpen == "open"

ErrOpenState == "circuit breaker is open"
ErrTooManyRequests == "too many requests"

\* gobreaker.Counts
ZeroCounts ==
    [Requests |-> 0, TotalSuccesses |-> 0, TotalFailures |-> 0,
     ConsecutiveSuccesses |-> 0, ConsecutiveFailures |-> 0]

CountsOnRequest(c) == [c EXCEPT !.Requests = @ + 1]

\* a success whose update of the counts is lost
CountsOnSuccessLost(c) == c

CountsOnSuccess(c) ==
    [c EXCEPT !.TotalSuccesses = @ + 1, !.ConsecutiveSuccesses = @ + 1,
              !.ConsecutiveFailures = 0]

CountsOnFailure(c) ==
    [c EXCEPT !.TotalFailures = @ + 1, !.ConsecutiveFailures = @ + 1,
              !.ConsecutiveSuccesses = 0]

\* the breaker trips at the first failure
ReadyToTripOnAnyFailure(c) == c.TotalFailures > 0

\* no ReadyToTrip is set in the Settings: the default one
ReadyToTrip(c) == c.ConsecutiveFailures > DefaultConsecutiveFailures

\* The breaker: its state, its counts and its expiry.  The expiry is kept as
\* the seconds left until it (<<>> is the zero time), so expiry.Before(now)
\* reads expiry[1] < 0.  openFor is the time since the breaker opened.
\* A new generation begins with cleared counts and the expiry of its state.
toNewGeneration(state) ==
    [state |-> state, counts |-> ZeroCounts,
     expiry |-> IF state = StateClosed THEN <<Interval>>
                ELSE IF state = StateOpen THEN <<Timeout>>
                ELSE <<>>,
     openFor |-> 0]

setState(b, state) == IF b.state = state THEN b ELSE toNewGeneration(state)

Expired(b) == b.expiry # <<>> /\ b.expiry[1] < 0

\* an Open breaker that becomes Half-Open as soon as it is asked
currentStateWithoutCooldown(b) ==
    IF b.state = StateClosed /\ Expired(b) THEN toNewGeneration(StateClosed)
    ELSE IF b.state = StateOpen THEN setState(b, StateHalfOpen)
    ELSE b

\* currentState(now): a Closed breaker past its interval begins a new
\* generation, an Open breaker past its timeout becomes Half-Open
currentState(b) ==
    IF b.state = StateClosed /\ Expired(b) THEN toNewGeneration(StateClosed)
    ELSE IF b.state = StateOpen /\ Expired(b) THEN setState(b, StateHalfOpen)
    ELSE b

\* a Half-Open breaker that admits every call
RejectionWithoutLimit(b) ==
    IF b.state = StateOpen THEN ErrOpenState ELSE ""

\* beforeRequest: the error with which breaker b, brought up to date, refuses
\* a call, "" when it admits it
Rejection(b) ==
    IF b.state = StateOpen THEN ErrOpenState
    ELSE IF b.state = StateHalfOpen /\ b.counts.Requests >= MaxRequests
    THEN ErrTooManyRequests
    ELSE ""

onSuccess(b) ==
    IF b.state = StateClosed THEN [b EXCEPT !.counts = CountsOnSuccess(@)]
    ELSE IF b.state = StateHalfOpen
    THEN IF CountsOnSuccess(b.counts).ConsecutiveSuccesses >= MaxRequests
         THEN setState(b, StateClosed)
         ELSE [b EXCEPT !.counts = CountsOnSuccess(@)]
    ELSE b

onFailure(b) ==
    IF b.state = StateClosed
    THEN IF ReadyToTrip(CountsOnFailure(b.counts)) THEN setState(b, StateOpen)
         ELSE [b EXCEPT !.counts = CountsOnFailure(@)]
    ELSE IF b.state = StateHalfOpen THEN setState(b, StateOpen)
    ELSE b

\* A call in flight keeps the generation it was admitted in.  The calls are
\* goroutines the breaker does not tell apart: the model keeps how many are
\* in their closure with the breaker's generation (current) and how many
\* with an earlier one (old).
NoCalls == [current |-> 0, old |-> 0]

\* the breaker went from b to b2 by beginning a new generation
NewGeneration(b, b2) == b2 # b /\ b2.counts = ZeroCounts

\* the calls in flight once the breaker went from b to b2
Outdated(calls, b, b2) ==
    IF NewGeneration(b, b2)
    THEN [current |-> 0, old |-> calls.old + calls.current]
    ELSE calls

(* ------------------- what the Location Service answers ----------------- *)
Body(json, success, data, drivers) ==
    [json |-> json, success |-> success, data |-> data, drivers |-> drivers]

NoBody == Body(FALSE, FALSE, "none", <<>>)

Response(err, status, body) == [err |-> err, status |-> status, body |-> body]

NoResponse == Response("none", 0, NoBody)

\* a list of one domain.DriverDistancePair
ClientDrivers == <<DriverWithDistance(Driver("d1", P0), Distance(Q0, P0))>>

\* the ways the closure passed to Execute can end: the request cannot be
\* built, the transport fails, or a response arrives
Responses ==
    {Response("request", 0, NoBody), Response("transport", 0, NoBody),
     Response("", StatusInternalServerError, NoBody),
     Response("", StatusCreated, Body(TRUE, TRUE, "object", ClientDrivers)),
     Response("", StatusOK, NoBody),
     Response("", StatusOK, Body(TRUE, FALSE, "none", <<>>)),
     Response("", StatusOK, Body(TRUE, FALSE, "object", ClientDrivers)),
     Response("", StatusOK, Body(TRUE, TRUE, "scalar", <<>>)),
     Response("", StatusOK, Body(TRUE, TRUE, "object", <<>>)),
     Response("", StatusOK, Body(TRUE, TRUE, "object", ClientDrivers))}

\* the closure returns every response it receives
ClosureErrorIgnoringStatus(r) == r.err

\* the error the closure returns, "" when it returns the response
ClosureError(r) ==
    IF r.err # "" THEN r.err
    ELSE IF r.status # StatusOK THEN "unexpected status"
    ELSE ""

\* the body is read without looking at its success field
InterpretIgnoringSuccess(r) ==
    IF ~r.body.json THEN [drivers |-> <<>>, err |-> "decode"]
    ELSE IF r.body.data # "object"
    THEN [drivers |-> <<>>, err |-> "invalid response data format"]
    ELSE [drivers |-> r.body.drivers, err |-> ""]

\* FindNearbyDrivers after Execute has returned the response
Interpret(r) ==
    IF ~r.body.json THEN [drivers |-> <<>>, err |-> "decode"]
    ELSE IF ~r.body.success
    THEN [drivers |-> <<>>, err |-> "driver location service error"]
    ELSE IF r.body.data # "object"
    THEN [drivers |-> <<>>, err |-> "invalid response data format"]
    ELSE [drivers |-> r.body.drivers, err |-> ""]

\* what a call that has just returned leaves in last, until the next step of
\* the client: the state the breaker was seen in,
\* the response if the closure ran, whether httpClient.Do was reached, how
\* the breaker counted the call, and what FindNearbyDrivers returned
Finish(state, response, io, counted, drivers, err) ==
    [state |-> state, response |-> response, io |-> io,
     counted |-> counted, drivers |-> drivers, err |-> err]

serviceVars == <<collection, redis, cacheKind, generated, proc, keyIn, keyOut, ttlVars, matchVars, importVars>>

ClientInit ==
    /\ collection = <<>>
    /\ redis = <<>>
    /\ cacheKind = "noop"
    /\ generated = 0
    /\ proc = [p \in Procs |-> IdleProc]
    /\ keyIn = <<NoQuery, NoQuery>>
    /\ keyOut = <<>>
    /\ NoTTL /\ NoMatch /\ NoImport
    /\ breaker = toNewGeneration(StateClosed)
    /\ inflight = NoCalls
    /\ last = <<>>

\* FindNearbyDrivers up to the closure: breaker.Execute calls beforeRequest,
\* which refuses the call or counts it and lets the closure run
Execute ==
    /\ inflight.current + inflight.old < NumCallers
    /\ currentState(breaker).counts.Requests < MaxCalls
    /\ LET b == currentState(breaker)
       IN  IF Rejection(b) # ""
           THEN /\ breaker' = b
                /\ inflight' = Outdated(inflight, breaker, b)
                /\ last' = Finish(b.state, NoResponse, FALSE, "none", <<>>, Rejection(b))
           ELSE /\ breaker' = [b EXCEPT !.counts = CountsOnRequest(@)]
                /\ inflight' = [Outdated(inflight, breaker, b) EXCEPT !.current = @ + 1]
                /\ last' = <<>>
    /\ UNCHANGED serviceVars

\* the closure of a call admitted in the breaker's generation (current) or in
\* an earlier one ends with response r, Execute calls afterRequest, which
\* counts the outcome unless the generation has changed, and
\* FindNearbyDrivers reads the response
Respond(current, r) ==
    /\ IF current THEN inflight.current > 0 ELSE inflight.old > 0
    /\ LET b == currentState(breaker)
           live == current /\ ~NewGeneration(breaker, b)
           rest == IF current THEN [inflight EXCEPT !.current = @ - 1]
                   ELSE [inflight EXCEPT !.old = @ - 1]
           b2 == IF ~live THEN b
                 ELSE IF ClosureError(r) = "" THEN onSuccess(b) ELSE onFailure(b)
           counted == IF ~live THEN "ignored"
                      ELSE IF ClosureError(r) = "" THEN "success" ELSE "failure"
       IN  /\ breaker' = b2
           /\ inflight' = Outdated(Outdated(rest, breaker, b), b, b2)
           /\ last' = IF ClosureError(r) # ""
                      THEN Finish(b.state, r, r.err # "request", counted, <<>>,
                                  ClosureError(r))
                      ELSE Finish(b.state, r, TRUE, counted, Interpret(r).drivers,
                                  Interpret(r).err)
    /\ UNCHANGED serviceVars

\* TimeStep seconds pass
ClientTick ==
    /\ breaker.expiry # <<>> /\ breaker.expiry[1] >= 0
    /\ breaker' = [breaker EXCEPT
           !.expiry = <<@[1] - TimeStep>>,
           !.openFor = IF breaker.state = StateOpen THEN @ + TimeStep ELSE @]
    /\ last' = <<>>
    /\ UNCHANGED inflight
    /\ UNCHANGED serviceVars

ClientNext ==
    \/ Execute
    \/ \E current \in BOOLEAN : \E r \in Responses : Respond(current, r)
    \/ ClientTick

SpecClient == ClientInit /\ [][ClientNext]_vars

(* ================= MatchingService and MatchHandler ==================== *)
StatusUnauthorized == 401

ErrNoDrivers == "no drivers found"

\* two candidates as the Location Service ranks them, nearest first
MatchCandidates ==
    <<DriverWithDistance(Driver("d1", P0), Distance(Q0, P0)),
      DriverWithDistance(Driver("d2", P1), Distance(Q0, P1))>>

\* the ways one call to the Location Service can end
MatchResponses ==
    Responses \cup {Response("", StatusOK, Body(TRUE, TRUE, "object", MatchCandidates))}

\* FindNearbyDrivers from entry to return, with the breaker in b0 and the
\* closure ending with r: the breaker it leaves and what it returns
FindNearbyDrivers(b0, r) ==
    LET b == currentState(b0)
        b1 == [b EXCEPT !.counts = CountsOnRequest(@)]
    IN  IF Rejection(b) # ""
        THEN [breaker |-> b, admitted |-> FALSE, drivers |-> <<>>, err |-> Rejection(b)]
        ELSE IF ClosureError(r) # ""
        THEN [breaker |-> onFailure(b1), admitted |-> TRUE, drivers |-> <<>>,
              err |-> ClosureError(r)]
        ELSE [breaker |-> onSuccess(b1), admitted |-> TRUE,
              drivers |-> Interpret(r).drivers, err |-> Interpret(r).err]

\* domain.NewRider
NewRider(id, location) == [ID |-> id, Location |-> location]

\* domain.MatchResult
MatchResult(riderID, driverID, distance) ==
    [RiderID |-> riderID, DriverID |-> driverID, Distance |-> distance]

\* math.Round(d*100) / 100 on a distance in metres, here in millimetres
RoundCentimetres(mm) == ((mm + 5) \div 10) * 10

\* what one call of the client returned, as the service sees it
Found(f) == [admitted |-> f.admitted, drivers |-> f.drivers, err |-> f.err]

\* what MatchRiderToDriver leaves and returns
Matched(b, calls, result, err) ==
    [breaker |-> b, calls |-> calls, result |-> result, err |-> err]

\* a service that matches the rider to the last driver of the list
MatchRiderToDriverLastOfList(b, rider, radius, rs) ==
    LET f == FindNearbyDrivers(b, rs[1])
        n == Len(f.drivers)
    IN  IF f.err # "" THEN Matched(f.breaker, <<Found(f)>>, <<>>, f.err)
        ELSE IF n = 0 THEN Matched(f.breaker, <<Found(f)>>, <<>>, ErrNoDrivers)
        ELSE Matched(f.breaker, <<Found(f)>>,
                     MatchResult(rider.ID, f.drivers[n].Driver.ID,
                                 RoundCentimetres(f.drivers[n].Distance)), "")

\* a service that calls the client a second time when the first call fails
MatchRiderToDriverRetrying(b, rider, radius, rs) ==
    LET f1 == FindNearbyDrivers(b, rs[1])
        f2 == FindNearbyDrivers(f1.breaker, rs[2])
        f == IF f1.err # "" THEN f2 ELSE f1
        calls == IF f1.err # "" THEN <<Found(f1), Found(f2)>> ELSE <<Found(f1)>>
    IN  IF f.err # "" THEN Matched(f.breaker, calls, <<>>, f.err)
        ELSE IF Len(f.drivers) = 0 THEN Matched(f.breaker, calls, <<>>, ErrNoDrivers)
        ELSE Matched(f.breaker, calls,
                     MatchResult(rider.ID, f.drivers[1].Driver.ID,
                                 RoundCentimetres(f.drivers[1].Distance)), "")

\* MatchingService.MatchRiderToDriver with the client's breaker in b, when
\* the Location Service would end the n-th call made for this request with
\* rs[n]
MatchRiderToDriver(b, rider, radius, rs) ==
    LET f == FindNearbyDrivers(b, rs[1])
    IN  IF f.err # "" THEN Matched(f.breaker, <<Found(f)>>, <<>>, f.err)
        ELSE IF Len(f.drivers) = 0
        THEN Matched(f.breaker, <<Found(f)>>, <<>>, ErrNoDrivers)
        ELSE Matched(f.breaker, <<Found(f)>>,
                     MatchResult(rider.ID, f.drivers[1].Driver.ID,
                                 RoundCentimetres(f.drivers[1].Distance)), "")

\* a handler that answers every error of the service alike
MatchStatusCollapsed(err) ==
    IF err # "" THEN StatusInternalServerError ELSE StatusOK

\* MatchHandler.Match: the status written for the error of the service
MatchStatus(err) ==
    IF err = "" THEN StatusOK
    ELSE IF err = ErrNoDrivers THEN StatusNotFound
    ELSE StatusInternalServerError

\* the code in the "error" field of the answer, "" when it carries a match
MatchError(err) ==
    IF err = "" THEN ""
    ELSE IF err = ErrNoDrivers THEN "not_found"
    ELSE "internal_error"

\* the requests the handler receives once the token middleware has run: what
\* the middleware left in the context, and the body
\* coordinates are held in 2^-21 degree, the radius of a match request in
\* centimetres
UnitsPerDegree == 2097152

MaxLongitude == 180 * UnitsPerDegree

MaxLatitude == 90 * UnitsPerDegree

\* 0.1 m and 50000 m
MinRadius == 10

MaxRadius == 5000000

\* validateCoordinates
validateCoordinates(coordinates) ==
    LET longitude == coordinates[1]
        latitude == coordinates[2]
    IN  /\ ~(longitude < 0 - MaxLongitude \/ longitude > MaxLongitude)
        /\ ~(latitude < 0 - MaxLatitude \/ latitude > MaxLatitude)

\* validateRadius
validateRadius(radius) == radius >= MinRadius /\ radius <= MaxRadius

\* a validation that leaves the radius unchecked
ValidateStructWithoutRadius(req) ==
    (IF req.location.Type = "" THEN {"Type required"}
     ELSE IF req.location.Type # "Point" THEN {"Type eq"} ELSE {})
    \cup (IF req.location.Coordinates = <<0, 0>> THEN {"Coordinates required"}
          ELSE IF ~validateCoordinates(req.location.Coordinates)
          THEN {"Coordinates coordinates"} ELSE {})

\* domain.ValidateStruct on a MatchRequest: the tags that fail, one per
\* field.  Location.Type is required,eq=Point; Location.Coordinates is
\* required,len=2,coordinates; Radius is required,radius; "required" fails on
\* the zero value of the field
ValidateStruct(req) ==
    (IF req.location.Type = "" THEN {"Type required"}
     ELSE IF req.location.Type # "Point" THEN {"Type eq"} ELSE {})
    \cup (IF req.location.Coordinates = <<0, 0>> THEN {"Coordinates required"}
          ELSE IF ~validateCoordinates(req.location.Coordinates)
          THEN {"Coordinates coordinates"} ELSE {})
    \cup (IF req.radius = 0 THEN {"Radius required"}
          ELSE IF ~validateRadius(req.radius) THEN {"Radius radius"} ELSE {})

\* locations a match request can carry: a valid one, one that is not a
\* Point, one east of 180 degrees and one north of 90 degrees
MatchLocations ==
    {Q0, [Type |-> "Invalid", Coordinates |-> <<1, 0>>],
     NewPoint(181 * UnitsPerDegree, 0), NewPoint(0, 91 * UnitsPerDegree)}

\* 500 m; 0.05 m, 50000.01 m and -10 m
MatchRadii == {50000, 5, MaxRadius + 1, -1000}

\* requests of either rider, with and without a token and a readable body,
\* and rider-1's requests with every location and radius
MatchRequests ==
    [is_authenticated : BOOLEAN, user_id : {"rider-1", "rider-2"},
     body : {"json", "malformed"}, location : {Q0}, radius : {50000}]
    \cup [is_authenticated : {TRUE}, user_id : {"rider-1"}, body : {"json"},
          location : MatchLocations, radius : MatchRadii]

\* the record of a request the handler has answered
Answered(req, reached, m, status, error) ==
    [request |-> req, reached |-> reached, calls |-> m.calls,
     result |-> m.result, err |-> m.err, status |-> status, error |-> error]

matchIdleVars ==
    <<collection, redis, cacheKind, generated, proc, keyIn, keyOut, ttlVars,
      inflight, last, outbound, importVars>>

MatchInit ==
    /\ collection = <<>>
    /\ redis = <<>>
    /\ cacheKind = "noop"
    /\ generated = 0
    /\ proc = [p \in Procs |-> IdleProc]
    /\ keyIn = <<NoQuery, NoQuery>>
    /\ keyOut = <<>>
    /\ NoTTL
    /\ breaker = toNewGeneration(StateClosed)
    /\ inflight = <<>>
    /\ last = <<>>
    /\ NoMatch /\ NoImport

\* MatchHandler.Match serves request req while the Location Service ends a
\* call made for it with r
Match(req, r) ==
    /\ currentState(breaker).counts.Requests < MaxCalls
    /\ IF ~req.is_authenticated
       THEN /\ match' = Answered(req, FALSE, Matched(breaker, <<>>, <<>>, ""),
                                 StatusUnauthorized, "unauthorized")
            /\ UNCHANGED breaker
       ELSE IF req.body # "json"
       THEN /\ match' = Answered(req, FALSE, Matched(breaker, <<>>, <<>>, ""),
                                 StatusBadRequest, "invalid_request")
            /\ UNCHANGED breaker
       ELSE IF ValidateStruct(req) # {}
       THEN /\ match' = Answered(req, FALSE, Matched(breaker, <<>>, <<>>, ""),
                                 StatusBadRequest, "validation_error")
            /\ UNCHANGED breaker
       ELSE LET rider == NewRider(req.user_id, req.location)
                m == MatchRiderToDriver(breaker, rider, req.radius, <<r, r>>)
            IN  /\ match' = Answered(req, TRUE, m, MatchStatus(m.err), MatchError(m.err))
                /\ breaker' = m.breaker
    /\ UNCHANGED matchIdleVars

\* TimeStep seconds pass between two requests
MatchTick ==
    /\ breaker.expiry # <<>> /\ breaker.expiry[1] >= 0
    /\ breaker' = [breaker EXCEPT
           !.expiry = <<@[1] - TimeStep>>,
           !.openFor = IF breaker.state = StateOpen THEN @ + TimeStep ELSE @]
    /\ match' = <<>>
    /\ UNCHANGED matchIdleVars

MatchNext ==
    \/ \E req \in MatchRequests : \E r \in MatchResponses : Match(req, r)
    \/ MatchTick

SpecMatch == MatchInit /\ [][MatchNext]_vars

(* =============== deadlines and cancellation of outbound calls ========== *)
\* One outbound call is followed from its start to its end: a call of
\* DriverLocationClient.FindNearbyDrivers to the Location Service, or a call
\* of MongoDriverRepository.SearchNearby to MongoDB.  Its caller holds a
\* context that may be cancelled while the call is pending.  Time advances
\* in steps of DeadlineStep seconds.
CallKinds == {"client", "store"}

\* the call is made with the context of its caller: FindNearbyDrivers builds
\* its request with http.NewRequestWithContext(ctx, ...); SearchNearby has no
\* context parameter and derives its own from context.Background()
UsesCallerContext(kind) == kind = "client"

\* a client whose calls are bounded by the cooldown of its breaker
CallLimitOfBreaker(kind) == IF kind = "client" THEN Timeout ELSE SearchNearbyTimeout

\* the timeout of the call itself: http.Client.Timeout, context.WithTimeout
CallLimit(kind) == IF kind = "client" THEN RequestTimeout ELSE SearchNearbyTimeout

Pending(kind) ==
    [kind |-> kind, state |-> "pending", age |-> 0, signal |-> FALSE,
     sinceSignal |-> 0, stale |-> FALSE, cause |-> ""]

IsPending == outbound # <<>> /\ outbound.state = "pending"

\* the call ends now if it is not answered first: its context is done
Abortable ==
    /\ IsPending
    /\ \/ UsesCallerContext(outbound.kind) /\ outbound.signal
       \/ outbound.age >= CallLimit(outbound.kind)

\* the pending call once the breaker went from b to b2
Aged(o, b, b2) == [o EXCEPT !.stale = @ \/ NewGeneration(b, b2)]

\* afterRequest for the pending client call; a call of an earlier
\* generation is not counted
AfterRequest(b, success) ==
    IF outbound.stale \/ NewGeneration(b, currentState(b)) THEN currentState(b)
    ELSE IF success THEN onSuccess(currentState(b))
    ELSE onFailure(currentState(b))

deadlineIdleVars ==
    <<collection, redis, cacheKind, generated, proc, keyIn, keyOut, ttlVars,
      inflight, last, match, importVars>>

DeadlineInit ==
    /\ collection = <<>>
    /\ redis = <<>>
    /\ cacheKind = "noop"
    /\ generated = 0
    /\ proc = [p \in Procs |-> IdleProc]
    /\ keyIn = <<NoQuery, NoQuery>>
    /\ keyOut = <<>>
    /\ NoTTL
    /\ breaker = toNewGeneration(StateClosed)
    /\ inflight = <<>>
    /\ last = <<>>
    /\ NoMatch /\ NoImport

\* FindNearbyDrivers(ctx, ...) begins: beforeRequest refuses it or lets the
\* closure send the request
BeginClientCall ==
    /\ ~IsPending
    /\ currentState(breaker).counts.Requests < MaxCalls
    /\ LET b == currentState(breaker)
       IN  IF Rejection(b) # ""
           THEN /\ breaker' = b
                /\ outbound' = [Pending("client") EXCEPT !.state = "refused",
                                                         !.cause = Rejection(b)]
           ELSE /\ breaker' = [b EXCEPT !.counts = CountsOnRequest(@)]
                /\ outbound' = Pending("client")
    /\ UNCHANGED deadlineIdleVars

\* SearchNearby begins, called by SearchNearbyDrivers for a request whose
\* context the service does not pass on
BeginStoreCall ==
    /\ ~IsPending
    /\ outbound' = Pending("store")
    /\ UNCHANGED breaker
    /\ UNCHANGED deadlineIdleVars

\* the caller's context is cancelled or its deadline passes
CallerSignal ==
    /\ IsPending /\ ~outbound.signal
    /\ outbound' = [outbound EXCEPT !.signal = TRUE]
    /\ UNCHANGED breaker
    /\ UNCHANGED deadlineIdleVars

\* the call is answered
CallReturns(success) ==
    /\ IsPending
    /\ outbound' = [outbound EXCEPT !.state = "returned", !.cause = "response"]
    /\ breaker' = IF outbound.kind = "client" THEN AfterRequest(breaker, success)
                  ELSE breaker
    /\ UNCHANGED deadlineIdleVars

\* the context the call was made with is done: the call returns its error
CallAborts ==
    /\ Abortable
    /\ outbound' = [outbound EXCEPT
           !.state = "aborted",
           !.cause = IF UsesCallerContext(outbound.kind) /\ outbound.signal
                     THEN "context canceled" ELSE "deadline exceeded"]
    /\ breaker' = IF outbound.kind = "client" THEN AfterRequest(breaker, FALSE)
                  ELSE breaker
    /\ UNCHANGED deadlineIdleVars

\* another goroutine's call to the Location Service ends with r and is
\* counted by the breaker
OtherCall(r) ==
    /\ IsPending /\ outbound.kind = "client"
    /\ currentState(breaker).counts.Requests < MaxCalls
    /\ breaker' = FindNearbyDrivers(breaker, r).breaker
    /\ outbound' = Aged(outbound, breaker, breaker')
    /\ UNCHANGED deadlineIdleVars

\* DeadlineStep seconds pass; a call whose context is done has ended before
DeadlineTick ==
    /\ ~Abortable
    /\ IsPending \/ (breaker.expiry # <<>> /\ breaker.expiry[1] >= 0)
    /\ breaker' = [breaker EXCEPT
           !.expiry = IF @ # <<>> /\ @[1] >= 0 THEN <<@[1] - DeadlineStep>> ELSE @,
           !.openFor = IF breaker.state = StateOpen /\ breaker.expiry[1] >= 0
                       THEN @ + DeadlineStep ELSE @]
    /\ outbound' = IF ~IsPending THEN <<>>
                   ELSE [outbound EXCEPT
                            !.age = @ + DeadlineStep,
                            !.sinceSignal = IF outbound.signal THEN @ + DeadlineStep ELSE @]
    /\ UNCHANGED deadlineIdleVars

DeadlineNext ==
    \/ BeginClientCall
    \/ BeginStoreCall
    \/ CallerSignal
    \/ \E success \in BOOLEAN : CallReturns(success)
    \/ CallAborts
    \/ \E r \in {Response("transport", 0, NoBody),
                 Response("", StatusOK, Body(TRUE, TRUE, "object", ClientDrivers))} :
          OtherCall(r)
    \/ DeadlineTick

SpecDeadline == DeadlineInit /\ [][DeadlineNext]_vars

(* ========== Router and APIKeyAuthMiddleware (Location Service) ========= *)
\* AuthConfig.MatchingAPIKey, fixed at start-up
MatchingAPIKey == "secret"

\* values of the X-API-Key header, "" when the header is absent
AuthKeys == {"", "secret", " secret ", "wrong"}

\* strings.TrimSpace on the keys the model uses
TrimKey(s) == IF s = " secret " THEN "secret" ELSE TrimSpace(s)

PublicRoutes == {"GET /health", "GET /metrics", "GET /swagger/*"}

DriverRoutes ==
    {"POST /api/v1/drivers", "POST /api/v1/drivers/search", "GET /api/v1/drivers/:id",
     "PUT /api/v1/drivers/:id", "PATCH /api/v1/drivers/:id/location",
     "DELETE /api/v1/drivers/:id"}

Routes == PublicRoutes \cup DriverRoutes

\* a router that registers the search route outside the drivers group
ProtectedExceptSearch(route) ==
    route \in DriverRoutes \ {"POST /api/v1/drivers/search"}

\* the routes of the group the middleware is attached to by drivers.Use
Protected(route) == route \in DriverRoutes

\* a middleware that lets a request without the header through
APIKeyAuthMiddlewareOptional(expected, apiKey) ==
    IF apiKey = "" THEN ""
    ELSE IF TrimKey(expected) = "" THEN "Server misconfiguration: API key is not set"
    ELSE IF TrimKey(apiKey) # TrimKey(expected) THEN "Invalid API key"
    ELSE ""

\* APIKeyAuthMiddleware: the message of its 401 answer, "" when it calls next
APIKeyAuthMiddleware(expected, apiKey) ==
    IF apiKey = "" THEN "API key is required"
    ELSE IF TrimKey(expected) = "" THEN "Server misconfiguration: API key is not set"
    ELSE IF TrimKey(apiKey) # TrimKey(expected) THEN "Invalid API key"
    ELSE ""

\* the request answered by the router itself: by the middleware with 401, or
\* by a handler that does not use the service
Answer(p, op, route, status, msg) ==
    /\ Free(p)
    /\ proc' = [Retired EXCEPT ![p] =
           Done([Begin(p) EXCEPT !.op = op, !.id = route], <<status>>, msg)]
    /\ UNCHANGED <<collection, redis, cacheKind, generated, keyIn, keyOut, ttlVars,
                   clientVars, matchVars, importVars>>

\* the handler registered for the route calls the service
Dispatch(p, route) ==
    \/ /\ route = "GET /health"
       /\ Answer(p, "HealthCheck", route, StatusOK, "")
    \/ /\ route \in PublicRoutes \ {"GET /health"}
       /\ Answer(p, "echo", route, StatusOK, "")
    \/ /\ route = "POST /api/v1/drivers"
       /\ \E b \in BatchInputs : BatchCreateDrivers(p, b)
    \/ /\ route = "POST /api/v1/drivers/search"
       /\ \E q \in SearchInputs : SearchNearbyDrivers(p, q.Location, q.Radius, q.Limit)
    \/ /\ route = "GET /api/v1/drivers/:id"
       /\ \E id \in IDInputs : GetDriver(p, id)
    \/ /\ route = "PUT /api/v1/drivers/:id"
       /\ \E d \in UpdateInputs : UpdateDriver(p, d.ID, d.Location)
    \/ /\ route = "PATCH /api/v1/drivers/:id/location"
       /\ \E d \in UpdateInputs : UpdateDriverLocation(p, d.ID, d.Location)
    \/ /\ route = "DELETE /api/v1/drivers/:id"
       /\ \E id \in IDInputs : DeleteDriver(p, id)

\* the router serves a request for route carrying the header value apiKey
Serve(p, route, apiKey) ==
    IF Protected(route) /\ APIKeyAuthMiddleware(MatchingAPIKey, apiKey) # ""
    THEN Answer(p, "APIKeyAuthMiddleware", route, StatusUnauthorized,
                APIKeyAuthMiddleware(MatchingAPIKey, apiKey))
    ELSE Dispatch(p, route)

AuthInit ==
    /\ collection = <<>>
    /\ redis = <<>>
    /\ cacheKind = "redis"
    /\ generated = 0
    /\ proc = [p \in Procs |-> IdleProc]
    /\ keyIn = <<NoQuery, NoQuery>>
    /\ keyOut = <<>>
    /\ NoTTL /\ NoClient /\ NoMatch /\ NoImport

\* requests are served one after the other, in slot 1
AuthNext ==
    \/ \E route \in Routes : \E apiKey \in AuthKeys : Serve(1, route, apiKey)
    \/ GetDriverRepoGetByID(1)
    \/ GetDriverCacheSet(1)
    \/ SearchRepoSearchNearby(1)
    \/ SearchCacheSetNearbyDrivers(1)
    \/ BatchCreateInvalidate(1)
    \/ DeleteDriverCacheDelete(1)
    \/ DeleteDriverInvalidate(1)
    \/ UpdateLocationRepoUpdate(1)
    \/ UpdateLocationCacheDelete(1)
    \/ UpdateLocationInvalidate(1)
    \/ UpdateDriverCacheDelete(1)
    \/ UpdateDriverInvalidate(1)
    \/ Tick

SpecAuth == AuthInit /\ [][AuthNext]_vars

(* ========= the coordinate order, from a CSV record to the query ======== *)
\* one record of Coordinates.csv is parsed by the importer, created through
\* the batch endpoint and then searched for
CsvCoords == (0 - MaxCsvCoord)..MaxCsvCoord

CsvFields == {ToString(n) : n \in CsvCoords} \cup {"not-a-float"}

\* records of one field (too short) and of two
CsvRecords == {<<f>> : f \in CsvFields} \cup (CsvFields \X CsvFields)

\* strconv.ParseFloat on the fields the model uses
ParseFloat(s) ==
    IF \E n \in CsvCoords : ToString(n) = s
    THEN [val |-> CHOOSE n \in CsvCoords : ToString(n) = s, err |-> ""]
    ELSE [val |-> 0, err |-> "invalid syntax"]

NoRequest == [ID |-> "", Location |-> ZeroPoint]

\* the record's fields taken in the order they are written
parseDriverLocationInRecordOrder(record) ==
    IF Len(record) < 2 THEN [req |-> NoRequest, err |-> "invalid record format"]
    ELSE LET latitude == ParseFloat(record[1])
             longitude == ParseFloat(record[2])
         IN  IF latitude.err # "" THEN [req |-> NoRequest, err |-> "invalid latitude"]
             ELSE IF longitude.err # "" THEN [req |-> NoRequest, err |-> "invalid longitude"]
             ELSE [req |-> [ID |-> "",
                            Location |-> [Type |-> "Point",
                                          Coordinates |-> <<latitude.val, longitude.val>>]],
                   err |-> ""]

\* importer.parseDriverLocation: a record is latitude,longitude
parseDriverLocation(record) ==
    IF Len(record) < 2 THEN [req |-> NoRequest, err |-> "invalid record format"]
    ELSE LET latitude == ParseFloat(record[1])
             longitude == ParseFloat(record[2])
         IN  IF latitude.err # "" THEN [req |-> NoRequest, err |-> "invalid latitude"]
             ELSE IF longitude.err # "" THEN [req |-> NoRequest, err |-> "invalid longitude"]
             ELSE [req |-> [ID |-> "",
                            Location |-> [Type |-> "Point",
                                          Coordinates |-> <<longitude.val, latitude.val>>]],
                   err |-> ""]

\* the filter MongoDriverRepository.SearchNearby sends to Find
NearFilter(location, radiusMeters) ==
    [geometry |-> [type |-> "Point",
                   coordinates |-> <<Longitude(location), Latitude(location)>>],
     maxDistance |-> radiusMeters]

CoordQueries == {NewPoint(x, y) : x \in CsvCoords, y \in {0, 1}}

CoordInit ==
    /\ collection = <<>>
    /\ redis = <<>>
    /\ cacheKind = "redis"
    /\ generated = 0
    /\ proc = [p \in Procs |-> IdleProc]
    /\ keyIn = <<NoQuery, NoQuery>>
    /\ keyOut = <<>>
    /\ NoTTL /\ NoClient /\ NoMatch
    /\ \E record \in CsvRecords : \E query \in CoordQueries : \E radius \in NearRadii :
         importer = [pc |-> "read", record |-> record, req |-> NoRequest, err |-> "",
                     query |-> query, radius |-> radius, key |-> "",
                     filter |-> <<>>, found |-> <<>>]

coordIdleVars ==
    <<redis, cacheKind, proc, keyIn, keyOut, ttlVars, clientVars, matchVars>>

\* the importer reads the record and parses it
CoordParse ==
    /\ importer.pc = "read"
    /\ LET parsed == parseDriverLocation(importer.record)
       IN  importer' = [importer EXCEPT !.pc = IF parsed.err = "" THEN "parsed" ELSE "skipped",
                                        !.req = parsed.req, !.err = parsed.err]
    /\ UNCHANGED <<collection, generated>>
    /\ UNCHANGED coordIdleVars

\* the batch endpoint creates the driver of the parsed request
CoordCreate ==
    /\ importer.pc = "parsed"
    /\ ValidBatch(<<importer.req>>)
    /\ \E o \in RepoBatchCreate(collection, WithObjectIDs(<<importer.req>>, generated)) :
         /\ collection' = o.val
         /\ generated' = generated + 1
         /\ importer' = [importer EXCEPT !.pc = "created", !.err = o.err]
    /\ UNCHANGED coordIdleVars

\* a search around the query point: the key of the cache lookup, the filter
\* of the store query and the drivers the store returns
CoordSearch ==
    /\ importer.pc = "created"
    /\ \E o \in RepoSearchNearby(collection, importer.query, importer.radius, DefaultLimit) :
         /\ o.out = "ok"
         /\ importer' =
              [importer EXCEPT
                 !.pc = "searched",
                 !.key = generateNearbyKey(Latitude(importer.query), Longitude(importer.query),
                                           importer.radius, DefaultLimit),
                 !.filter = NearFilter(importer.query, importer.radius),
                 !.found = o.val[1]]
    /\ UNCHANGED <<collection, generated>>
    /\ UNCHANGED coordIdleVars

CoordNext == CoordParse \/ CoordCreate \/ CoordSearch

SpecCoord == CoordInit /\ [][CoordNext]_vars

(* ================= the importer's worker pool (cmd/importer) =========== *)
\* importDataConcurrent after its workers were started: the main goroutine
\* reads Coordinates.csv and hands batches over the unbuffered batchCh to
\* NUM_WORKERS workers, each of which posts its batch and reports a failure on
\* the buffered errCh
BATCH_SIZE == 100

NUM_WORKERS == 4

\* capacity of errCh
ErrChCap == 100

Workers == 1..NUM_WORKERS

\* what the batch endpoint's answer can be for processBatchHTTP
BatchAnswers == {"created", "status", "transport", "unsuccessful", "unparseable"}

\* processBatchHTTP: nil for a 201 answer that parses and has success = true,
\* an error otherwise
processBatchHTTP(answer) ==
    CASE answer = "transport" -> "http request error"
      [] answer = "status" -> "API error"
      [] answer = "unparseable" -> "failed to parse API response"
      [] answer = "unsuccessful" -> "API operation failed"
      [] OTHER -> ""

\* a worker: its position and the size of the batch it holds
IdleWorker == [pc |-> "range", n |-> 0]

ImportInit ==
    /\ collection = <<>>
    /\ redis = <<>>
    /\ cacheKind = "noop"
    /\ generated = 0
    /\ proc = [p \in Procs |-> IdleProc]
    /\ keyIn = <<NoQuery, NoQuery>>
    /\ keyOut = <<>>
    /\ NoTTL /\ NoClient /\ NoMatch
    \* sent, handled, requested and failedItems only observe the run: the
    \* batches handed over, the batches posted, the drivers in them, and the
    \* drivers of the batches whose post failed
    /\ importer = [pc |-> "read", batch |-> 0, sent |-> 0, badRows |-> 0,
                   closed |-> FALSE, wg |-> NUM_WORKERS,
                   workers |-> [w \in Workers |-> IdleWorker],
                   errCh |-> 0, handled |-> 0, requested |-> 0, failedItems |-> 0,
                   successCount |-> 0, errorCount |-> 0]

importIdleVars ==
    <<collection, redis, cacheKind, generated, proc, keyIn, keyOut, ttlVars, clientVars,
      matchVars>>

\* reader.Read fails on a record or parseDriverLocation rejects it
ReadBadRecord ==
    /\ importer.pc = "read"
    /\ importer.badRows < MaxBadRows
    /\ importer' = [importer EXCEPT !.badRows = @ + 1, !.errorCount = @ + 1]
    /\ UNCHANGED importIdleVars

\* records are appended until the batch holds BATCH_SIZE of them
ReadBatch ==
    /\ importer.pc = "read"
    /\ importer.sent < MaxBatches
    /\ importer' = [importer EXCEPT !.pc = "send", !.batch = BATCH_SIZE]
    /\ UNCHANGED importIdleVars

\* the files read hold this many full batches
FileBatches == {0, 1, 2, MaxBatches - 1, MaxBatches}

\* EOF with n records in the batch since the last full one
ReadEOF(n) ==
    /\ importer.pc = "read"
    /\ importer.sent \in FileBatches
    /\ n > 0 => importer.sent < MaxBatches
    /\ importer' = [importer EXCEPT !.pc = IF n > 0 THEN "sendlast" ELSE "close",
                                    !.batch = n]
    /\ UNCHANGED importIdleVars

\* batchCh <- batch meets the receive of worker w's range loop
Take(w) ==
    /\ importer.pc \in {"send", "sendlast"}
    /\ importer.workers[w].pc = "range"
    /\ importer' = [importer EXCEPT
                      !.pc = IF importer.pc = "send" THEN "read" ELSE "close",
                      !.sent = @ + 1,
                      !.requested = @ + importer.batch,
                      !.successCount = @ + importer.batch,
                      !.batch = 0,
                      !.workers[w] = [pc |-> "post", n |-> importer.batch]]
    /\ UNCHANGED importIdleVars

\* worker w's processBatchHTTP returns
Post(w, answer) ==
    /\ importer.workers[w].pc = "post"
    /\ LET err == processBatchHTTP(answer)
       IN  importer' = [importer EXCEPT
                          !.handled = @ + 1,
                          !.failedItems = IF err # "" THEN @ + importer.workers[w].n ELSE @,
                          !.workers[w] = IF err # ""
                                         THEN [pc |-> "report", n |-> 0]
                                         ELSE IdleWorker]
    /\ UNCHANGED importIdleVars

\* errCh <- err: possible while the buffer has room
Report(w) ==
    /\ importer.workers[w].pc = "report"
    /\ importer.errCh < ErrChCap
    /\ importer' = [importer EXCEPT !.errCh = @ + 1, !.workers[w] = IdleWorker]
    /\ UNCHANGED importIdleVars

\* close(batchCh)
CloseBatchCh ==
    /\ importer.pc = "close"
    /\ importer' = [importer EXCEPT !.pc = "wait", !.closed = TRUE]
    /\ UNCHANGED importIdleVars

\* worker w's range loop ends on the closed channel; the deferred wg.Done runs
Exit(w) ==
    /\ importer.workers[w].pc = "range"
    /\ importer.closed
    /\ importer' = [importer EXCEPT !.wg = @ - 1,
                                    !.workers[w] = [IdleWorker EXCEPT !.pc = "exited"]]
    /\ UNCHANGED importIdleVars

\* wg.Wait returns, errCh is closed and drained
WaitAndDrain ==
    /\ importer.pc = "wait"
    /\ importer.wg = 0
    /\ importer' = [importer EXCEPT !.pc = "done", !.errCh = 0,
                                    !.errorCount = @ + importer.errCh]
    /\ UNCHANGED importIdleVars

ImportNext ==
    \/ ReadBadRecord
    \/ ReadBatch
    \/ \E n \in {0, PartialBatch} : ReadEOF(n)
    \/ \E w \in Workers : Take(w)
    \/ \E w \in Workers : \E answer \in BatchAnswers : Post(w, answer)
    \/ \E w \in Workers : Report(w)
    \/ CloseBatchCh
    \/ \E w \in Workers : Exit(w)
    \/ WaitAndDrain

SpecImport == ImportInit /\ [][ImportNext]_vars

\* the Go scheduler runs every goroutine that can take a step
SpecImportFair == SpecImport /\ WF_vars(ImportNext)

(* ================== the pipeline, one request at a time ================ *)
\* some cache call of the request failed
CacheFailedIn(pr) ==
    \E i \in DOMAIN pr.calls :
        pr.calls[i].out = "err" /\ pr.calls[i].call \notin
            {"repo.Create", "repo.BatchCreate", "repo.Update", "repo.Delete",
             "repo.GetByID", "repo.SearchNearby"}

\* the steps of the Location Service in executions in which no request runs
\* while another is in flight, no cache call fails and no batch is inserted
\* in part
SeqNext ==
    /\ Next
    /\ \A p \in Procs : ~proc'[p].overlap /\ ~CacheFailedIn(proc'[p])
    /\ \A p \in Procs :
         (proc'[p].op = "BatchCreateDrivers" /\ proc'[p].err # "") => collection' = collection

SpecSeq == Init /\ [][SeqNext]_vars

(* ======================= properties of the pipeline ==================== *)
Mutations ==
    {"CreateDriver", "BatchCreateDrivers", "DeleteDriver", "UpdateDriverLocation",
     "UpdateDriver"}

SingleDriverMutations == Mutations \ {"BatchCreateDrivers"}

Reads == {"GetDriver", "SearchNearbyDrivers"}

RepoCalls ==
    {"repo.Create", "repo.BatchCreate", "repo.Update", "repo.Delete", "repo.GetByID",
     "repo.SearchNearby"}

CacheCalls ==
    {"cache.Get", "cache.Set", "cache.Delete", "cache.GetNearbyDrivers",
     "cache.SetNearbyDrivers", "cache.InvalidateNearbyCache"}

Returned(p) == proc[p].pc = "done"

Succeeded(p) == Returned(p) /\ proc[p].err = ""

CallNames(p) == {proc[p].calls[i].call : i \in DOMAIN proc[p].calls}

\* some repository call of request p failed
RepoFailed(p) ==
    \E i \in DOMAIN proc[p].calls :
        proc[p].calls[i].call \in RepoCalls /\ proc[p].calls[i].out # "ok"

\* some cache call of request p failed
CacheFailed(p) ==
    \E i \in DOMAIN proc[p].calls :
        proc[p].calls[i].call \in CacheCalls /\ proc[p].calls[i].out = "err"

NearbyKeys(r) == {k \in DOMAIN r : IsNearbyKey(k)}

LastCall(p) == proc[p].calls[Len(proc[p].calls)]

\* the cache key request p reads and populates
ReadKey(p) ==
    IF proc[p].op = "GetDriver" THEN generateDriverKey(proc[p].id)
    ELSE generateNearbyKey(Latitude(proc[p].location), Longitude(proc[p].location),
                           proc[p].radius, proc[p].limit)

\* what the cache entry of request p's key decodes to
ReadEntry(p) ==
    IF proc[p].op = "GetDriver" THEN UnmarshalDriver(redis[ReadKey(p)].data)
    ELSE UnmarshalNearby(redis[ReadKey(p)].data)

\* the cache write a read makes after a miss
PopulateCall(p) ==
    IF proc[p].op = "GetDriver" THEN "cache.Set" ELSE "cache.SetNearbyDrivers"

PopulateData(p) ==
    IF proc[p].op = "GetDriver" THEN MarshalDriver(proc[p].ret[1])
    ELSE MarshalNearby(proc[p].ret[1])

PopulateTTL(p) == IF proc[p].op = "GetDriver" THEN DriverCacheTTL ELSE NearbyCacheTTL

C2_AsStated ==
    \A p \in Procs :
        (proc[p].op \in SingleDriverMutations /\ Succeeded(p))
            => /\ "cache.Delete" \in CallNames(p)
               /\ "cache.InvalidateNearbyCache" \in CallNames(p)
               /\ ~proc[p].overlap => generateDriverKey(proc[p].id) \notin DOMAIN redis

\* C2, amended: a successful update, location update or delete of driver d
\* calls cache.Delete for d and then InvalidateNearbyCache, and if that Delete
\* did not fail and no other request ran during the mutation, the cache holds
\* no entry for d on return.  A successful create instead calls cache.Set
\* with the created driver and the one-minute TTL, then InvalidateNearbyCache;
\* if that Set did not fail and no other request ran, an entry cached for d on
\* return holds the created driver.
C2_PerDriverCacheStep ==
    \A p \in Procs :
        (proc[p].op \in SingleDriverMutations /\ Succeeded(p))
            => LET n == Len(proc[p].calls)
                   perDriver == proc[p].calls[n - 1]
                   key == generateDriverKey(proc[p].id)
               IN  /\ n >= 3
                   /\ proc[p].calls[n].call = "cache.InvalidateNearbyCache"
                   /\ IF proc[p].op = "CreateDriver"
                      THEN /\ perDriver.call = "cache.Set"
                           /\ perDriver.val = <<proc[p].ret[1], DriverCacheTTL>>
                           /\ proc[p].ret[1].ID = proc[p].id
                           /\ (perDriver.out = "ok" /\ ~proc[p].overlap /\ key \in DOMAIN redis)
                                => redis[key].data = MarshalDriver(proc[p].ret[1])
                      ELSE /\ perDriver.call = "cache.Delete"
                           /\ (perDriver.out = "ok" /\ ~proc[p].overlap)
                                => key \notin DOMAIN redis

\* an update of a cached driver has returned, alone, with its Delete done
C2_Witness ==
    \E p \in Procs :
        /\ proc[p].op = "UpdateDriver" /\ Succeeded(p) /\ ~proc[p].overlap
        /\ cacheKind = "redis"
        /\ proc[p].calls[2].call = "cache.Delete" /\ proc[p].calls[2].out = "ok"
        /\ generateDriverKey(proc[p].id) \notin DOMAIN redis

\* ---- C3 ----
\* C3: a mutation whose repository call failed has returned an error and has
\* made no cache call at all: no Set, no Delete, no InvalidateNearbyCache.
C3_NoCacheAfterRepoFailure ==
    \A p \in Procs :
        (proc[p].op \in Mutations /\ RepoFailed(p))
            => /\ Returned(p)
               /\ proc[p].err # ""
               /\ proc[p].ret = <<>>
               /\ CallNames(p) \cap CacheCalls = {}

\* a mutation failed in the repository while the cache held entries
C3_Witness ==
    \E p \in Procs :
        /\ proc[p].op \in Mutations /\ RepoFailed(p) /\ Returned(p)
        /\ DOMAIN redis # {}

\* ---- C4 ----
\* C4: a read whose cache lookup hit has returned the cached value, which is
\* what the entry of its key decodes to, and made no other call: the
\* repository was not read.
C4_HitReturnsCached ==
    \A p \in Procs :
        (proc[p].op \in Reads /\ proc[p].calls # <<>> /\ proc[p].calls[1].out = "hit")
            => /\ Succeeded(p)
               /\ Len(proc[p].calls) = 1
               /\ CallNames(p) \cap RepoCalls = {}
               /\ proc[p].ret = proc[p].calls[1].val
               /\ ReadKey(p) \in DOMAIN redis
               /\ proc[p].ret = <<ReadEntry(p)>>

\* a search was served a cached, non-empty list
C4_Witness ==
    \E p \in Procs :
        /\ proc[p].op = "SearchNearbyDrivers" /\ Succeeded(p)
        /\ proc[p].calls[1].out = "hit"
        /\ proc[p].ret[1] # <<>>

\* ---- C5 ----
\* C5: a read that missed the cache and has returned made exactly three
\* calls when the repository answered: the lookup, the repository query and
\* the cache write of the repository's result with the one-minute TTL; it
\* returns the repository's result, and when the write did not fail the entry
\* is in Redis, with that TTL, at the moment of return.  When the repository
\* failed the read returns its error.
C5_MissPopulates ==
    \A p \in Procs :
        (proc[p].op \in Reads /\ Returned(p) /\ proc[p].calls # <<>>
            /\ proc[p].calls[1].out = "miss")
            => /\ Len(proc[p].calls) >= 2
               /\ proc[p].calls[2].call \in RepoCalls
               /\ IF proc[p].calls[2].out = "ok"
                  THEN /\ Len(proc[p].calls) = 3
                       /\ proc[p].calls[3].call = PopulateCall(p)
                       /\ proc[p].calls[3].val = <<proc[p].calls[2].val[1], PopulateTTL(p)>>
                       /\ PopulateTTL(p) = Minute
                       /\ proc[p].err = ""
                       /\ proc[p].ret = proc[p].calls[2].val
                       /\ (proc[p].calls[3].out = "ok" /\ cacheKind = "redis")
                            => /\ ReadKey(p) \in DOMAIN redis
                               /\ redis[ReadKey(p)] =
                                     [data |-> PopulateData(p), ttl |-> Minute, age |-> 0]
                  ELSE Len(proc[p].calls) = 2 /\ proc[p].err # ""

\* a GetDriver missed, read the repository and populated Redis
C5_Witness ==
    \E p \in Procs :
        /\ proc[p].op = "GetDriver" /\ Returned(p) /\ cacheKind = "redis"
        /\ Len(proc[p].calls) = 3
        /\ proc[p].calls[1].out = "miss"
        /\ proc[p].calls[3].out = "ok"

\* ---- C6 ----
\* C6: a read one of whose cache calls failed does not return on the failed
\* lookup; once it has returned, its second call was the repository query,
\* and it returns the repository's result (or the repository's failure),
\* never the cache's error.
C6_CacheErrorNotPropagated ==
    \A p \in Procs :
        (proc[p].op \in Reads /\ CacheFailed(p) /\ Returned(p))
            => /\ Len(proc[p].calls) >= 2
               /\ proc[p].calls[2].call \in RepoCalls
               /\ IF proc[p].calls[2].out = "ok"
                  THEN proc[p].err = "" /\ proc[p].ret = proc[p].calls[2].val
                  ELSE proc[p].err # "" /\ Len(proc[p].calls) = 2

\* a GetDriver returned the repository's driver although both its lookup and
\* its cache write failed
C6_Witness ==
    \E p \in Procs :
        /\ proc[p].op = "GetDriver" /\ Succeeded(p)
        /\ Len(proc[p].calls) = 3
        /\ proc[p].calls[1].out = "err"
        /\ proc[p].calls[3].out = "err"
        /\ proc[p].ret = proc[p].calls[2].val

\* ---- C7 ----
\* C7: a mutation that has returned after a repository step without failure
\* reports success, whatever its cache calls answered.
C7_CacheFailureSwallowed ==
    \A p \in Procs :
        (proc[p].op \in Mutations /\ Returned(p) /\ proc[p].calls # <<>> /\ ~RepoFailed(p))
            => /\ proc[p].err = ""
               /\ LastCall(p).call = "cache.InvalidateNearbyCache"

\* a create succeeded although its Set and its invalidation both failed
C7_Witness ==
    \E p \in Procs :
        /\ proc[p].op = "CreateDriver" /\ Succeeded(p)
        /\ Len(proc[p].calls) = 3
        /\ proc[p].calls[2].out = "err"
        /\ proc[p].calls[3].out = "err"

\* ---- C8 ----
\* the per-driver entry of id disagrees with the collection
StaleDriverEntry(id) ==
    /\ generateDriverKey(id) \in DOMAIN redis
    /\ \/ id \notin DOMAIN collection
       \/ UnmarshalDriver(redis[generateDriverKey(id)].data) # FromDocument(collection[id])

\* the valid searches whose key is k
SearchesOfKey(k) ==
    {q \in SearchInputs :
        /\ ValidSearchRequest(q.Location, q.Radius, q.Limit)
        /\ generateNearbyKey(Latitude(q.Location), Longitude(q.Location), q.Radius,
                             EffectiveLimit(q.Limit)) = k}

\* the nearby entry k is what no search of that key would get from the
\* collection now
StaleNearbyEntry(k) ==
    /\ k \in NearbyKeys(redis)
    /\ \A q \in SearchesOfKey(k) :
         UnmarshalNearby(redis[k].data)
            \notin SearchNearby(collection, q.Location, q.Radius, EffectiveLimit(q.Limit))

NoStaleEntry ==
    /\ \A id \in AllIDs : ~StaleDriverEntry(id)
    /\ \A k \in DOMAIN redis : ~StaleNearbyEntry(k)

\* C8 as stated: once a mutation has returned successfully, no entry that
\* disagrees with the collection is left in the cache to be served.
C8_AsStated ==
    \A p \in Procs : (proc[p].op \in Mutations /\ Succeeded(p)) => NoStaleEntry

\* request p makes the cache call name in this step, and it does not fail
JustCalled(p, name) ==
    /\ ~Free(p)
    /\ Len(proc'[p].calls) = Len(proc[p].calls) + 1
    /\ proc'[p].calls[Len(proc'[p].calls)].call = name
    /\ proc'[p].calls[Len(proc'[p].calls)].out = "ok"

\* C8, amended: an entry, stale or not, is served for less than its
\* one-minute TTL after it was written, and a cache.Delete call that does not
\* fail removes the per-driver entry it names at once.  A successful
\* mutation alone does not end staleness.
C8_StalenessBoundedByTTL ==
    [][/\ \A k \in DOMAIN redis' : redis'[k].age < Minute /\ redis'[k].ttl \in 1..Minute
       /\ \A p \in Procs :
            JustCalled(p, "cache.Delete")
                => generateDriverKey(proc'[p].id) \notin DOMAIN redis']_vars

\* a GetDriver is served, from the cache, a driver the collection does not
\* hold in that form
C8_Witness ==
    \E p \in Procs :
        /\ proc[p].op = "GetDriver" /\ Succeeded(p)
        /\ proc[p].calls[1].out = "hit"
        /\ StaleDriverEntry(proc[p].id)

\* ---- C9 ----
\* C9 as stated: a search with limit <= 0, otherwise valid, is carried out
\* with the limit 10: it is not rejected, and its cache lookup, its key and
\* its repository query use 10.
C9_AsStated ==
    \A p \in Procs :
        (/\ proc[p].op = "SearchNearbyDrivers"
         /\ proc[p].reqLimit <= 0
         /\ ValidPoint(proc[p].location) /\ proc[p].radius > 0)
            => /\ proc[p].limit = DefaultLimit
               /\ proc[p].calls # <<>>
               /\ proc[p].calls[1].call = "cache.GetNearbyDrivers"

\* ---- C10 ----
SignedMicroDegrees(c) ==
    <<c < 0, RoundHalfEven(Abs(c) * MicroPerUnitNum, MicroPerUnitDen)>>

\* a query as the key sees it: coordinates to 10^-6 degree with their sign,
\* the radius to the metre
Quantized(q) ==
    <<SignedMicroDegrees(q.lat), SignedMicroDegrees(q.lon),
      RoundHalfEven(Abs(q.radius), RadiusDenom), q.limit>>

C11_ExpiredIsMiss ==
    /\ \A k \in expired : k \notin DOMAIN redis
    /\ lookup # <<>> /\ lookup.expired => lookup.out \in {"miss", "err"} /\ lookup.val = <<>>

\* both kinds of lookup have returned a miss for an expired key
C11_Witness ==
    /\ lookup # <<>> /\ lookup.expired /\ lookup.out = "miss"
    /\ lookup.call = "cache.GetNearbyDrivers"
    /\ generateDriverKey("d1") \in expired

\* ---- C12 ----
\* request p carries an input that its operation's validation refuses
FailsValidation(p) ==
    \/ /\ proc[p].op = "SearchNearbyDrivers"
       /\ ~ValidSearchRequest(proc[p].location, proc[p].radius, proc[p].reqLimit)
    \/ /\ proc[p].op = "UpdateDriverLocation"
       /\ (TrimSpace(proc[p].id) = "" \/ ~ValidPoint(proc[p].location))
    \/ /\ proc[p].op \in {"GetDriver", "DeleteDriver"}
       /\ TrimSpace(proc[p].id) = ""

\* C12: a request that fails validation (malformed coordinates, non-positive
\* radius, blank driver ID) returns a validation error without having made
\* any call to the cache or to the repository; and whenever a request returns
\* a validation error it has made no such call.
C12_RejectedBeforeAnyAccess ==
    \A p \in Procs :
        /\ FailsValidation(p) =>
              /\ Returned(p)
              /\ proc[p].err \in ValidationErrors
              /\ proc[p].calls = <<>>
        /\ Returned(p) /\ proc[p].err \in ValidationErrors => proc[p].calls = <<>>

\* a search with radius 0 has been rejected while an entry it would have hit
\* is cached
C12_Witness ==
    \E p \in Procs :
        /\ proc[p].op = "SearchNearbyDrivers" /\ proc[p].radius = 0
        /\ Returned(p) /\ proc[p].err = "invalid request"
        /\ NearbyKeys(redis) # {}

StorageFailed(p) ==
    \E i \in DOMAIN proc[p].calls :
        proc[p].calls[i].call \in RepoCalls /\ proc[p].calls[i].out = "err"

\* C14 as stated: a request during which a repository call failed with a
\* database error is answered with a 5xx status, never with 404 or a success
\* status.
C14_AsStated ==
    \A p \in Procs :
        Returned(p) /\ StorageFailed(p) =>
            HandlerStatus(proc[p]) >= StatusInternalServerError

\* ---- C15 ----
\* the drivers of the collection within the radius of request p's centre
WithinRadius(p) ==
    {id \in DOMAIN collection :
        Distance(proc[p].location, collection[id].location)
            <= RadiusMilliMeters(proc[p].radius)}

\* C15: every list MongoDriverRepository.SearchNearby returns, for any
\* radius and any limit, is in non-decreasing order of distance from the
\* query centre, the distance it reports for a driver being that of the
\* driver's stored location; and when some driver lies within the radius the
\* list is not empty and its first element is at the least distance of all
\* drivers within the radius.
C15_SortedByDistance ==
    \A p \in Procs :
        proc[p].op = "repo.SearchNearby" /\ Succeeded(p) =>
            LET l == proc[p].ret[1]
            IN  /\ \A i \in 1..Len(l) :
                     /\ l[i].Driver.ID \in WithinRadius(p)
                     /\ l[i].Distance =
                            Distance(proc[p].location, collection[l[i].Driver.ID].location)
                /\ \A i \in 1..Len(l) : \A j \in 1..Len(l) :
                     i < j => l[i].Distance <= l[j].Distance
                /\ WithinRadius(p) # {} =>
                     /\ Len(l) >= 1
                     /\ \A id \in WithinRadius(p) :
                          l[1].Distance <=
                              Distance(proc[p].location, collection[id].location)

\* a search with limit -2 has returned the two nearest of three drivers within
\* the radius, the second farther away than the first
C15_Witness ==
    \E p \in Procs :
        /\ proc[p].op = "repo.SearchNearby" /\ Succeeded(p)
        /\ Len(proc[p].ret[1]) = 2
        /\ Cardinality(WithinRadius(p)) = 3
        /\ proc[p].ret[1][1].Distance < proc[p].ret[1][2].Distance
        /\ proc[p].limit = -2

\* ---- vocabulary of the client properties ----
\* this step admitted a call to its closure
Admitted == inflight'.current + inflight'.old > inflight.current + inflight.old

\* this step refused a call at beforeRequest
Refused == last' # <<>> /\ last'.response = NoResponse

\* this step ended a call whose outcome the breaker counted as a failure
CountedFailure == last' # <<>> /\ last'.counted = "failure"

\* this step ended a call whose outcome the breaker counted as a success
CountedSuccess == last' # <<>> /\ last'.counted = "success"

\* a call has just returned after its closure received response r
Received == last # <<>> /\ last.response # NoResponse

\* ---- C16 ----
\* C16: from the moment the breaker opens until 10 seconds have passed, the
\* breaker stays Open and no call is admitted: every call made in that time
\* returns ErrOpenState at once, without reaching httpClient.Do and without
\* being counted.
C16_OpenFailsFast ==
    [][breaker.state = StateOpen /\ breaker.openFor <= Timeout =>
          /\ ~Admitted
          /\ breaker'.state = StateOpen
          /\ Refused => /\ last'.err = ErrOpenState
                        /\ ~last'.io
                        /\ last'.counted = "none"
                        /\ last'.drivers = <<>>]_vars

\* a call has been refused 10 seconds after the breaker opened
C16_Witness ==
    /\ breaker.state = StateOpen /\ breaker.openFor = Timeout
    /\ last # <<>> /\ last.err = ErrOpenState /\ ~last.io

\* ---- C17 ----
\* C17 as stated: once the failures counted within one interval exceed the
\* threshold the breaker is no longer Closed.
C17_AsStated ==
    breaker.state = StateClosed =>
        breaker.counts.TotalFailures <= DefaultConsecutiveFailures

\* C17: a Closed breaker opens exactly when a failure is counted that makes
\* more than 5 consecutive failures, with no success between them, within
\* one generation of the counts, which begins when the breaker closes and
\* again whenever 60 seconds have passed since it began; the breaker then
\* starts its 10-second cooldown, in which the next call is refused with
\* ErrOpenState.
C17_TripsOnConsecutiveFailures ==
    [][breaker.state = StateClosed =>
          /\ breaker.counts.ConsecutiveFailures <= DefaultConsecutiveFailures
          /\ breaker'.state # StateHalfOpen
          /\ breaker'.state = StateOpen <=>
                /\ CountedFailure
                /\ ~Expired(breaker)
                /\ breaker.counts.ConsecutiveFailures = DefaultConsecutiveFailures
          /\ breaker'.state = StateOpen =>
                /\ breaker' = toNewGeneration(StateOpen)
                /\ Rejection(currentState(breaker')) = ErrOpenState]_vars

\* the sixth consecutive failure has just opened the breaker
C17_Witness ==
    /\ breaker.state = StateOpen /\ breaker.openFor = 0
    /\ last # <<>> /\ last.counted = "failure" /\ last.state = StateClosed

\* ---- C18 ----
\* C18: once more than 10 seconds have passed since the breaker opened, the
\* next call is admitted and the breaker is Half-Open.  A Half-Open breaker
\* admits at most 3 calls; a failure of one of them opens it again, with a
\* new cooldown; the third consecutive success closes it; nothing else
\* changes its state.
C18_HalfOpenTrials ==
    [][/\ breaker.state = StateOpen /\ breaker.openFor > Timeout =>
             /\ ~Refused
             /\ Admitted => /\ breaker'.state = StateHalfOpen
                            /\ breaker'.counts.Requests = 1
       /\ breaker.state = StateHalfOpen =>
             /\ breaker.counts.Requests <= MaxRequests
             /\ inflight.current <= breaker.counts.Requests
             /\ Admitted => breaker.counts.Requests < MaxRequests
             /\ Refused => last'.err = ErrTooManyRequests /\ ~last'.io
             /\ CountedFailure => breaker' = toNewGeneration(StateOpen)
             /\ CountedSuccess =>
                   IF breaker.counts.ConsecutiveSuccesses + 1 >= MaxRequests
                   THEN breaker' = toNewGeneration(StateClosed)
                   ELSE breaker'.state = StateHalfOpen
             /\ breaker'.state = StateOpen => CountedFailure
             /\ breaker'.state = StateClosed => CountedSuccess]_vars

\* a fourth call has been refused while three trial calls are in flight
C18_Witness ==
    /\ breaker.state = StateHalfOpen
    /\ inflight.current = MaxRequests
    /\ last # <<>> /\ last.err = ErrTooManyRequests

\* ---- C19 ----
\* the response is no HTTP 200
NotOK(r) == r.err = "" /\ r.status # StatusOK

\* the response is an HTTP 200 whose body is not of the expected schema
Unparseable(r) ==
    /\ r.err = "" /\ r.status = StatusOK
    /\ (~r.body.json \/ (r.body.success /\ r.body.data # "object"))

\* C19 as stated: a response that is not 2xx, a transport error and a
\* response that cannot be parsed are each counted as a failure, when the
\* breaker counts the call at all.
C19_AsStated ==
    Received /\ last.counted # "ignored"
             /\ (NotOK(last.response) \/ last.response.err = "transport"
                   \/ Unparseable(last.response)) =>
        last.counted = "failure"

\* C19: a response with a status other than 200 and a transport error are
\* counted as a failure, unless the breaker has begun a new generation since
\* the call was admitted, in which case the call is not counted; a 200
\* response that cannot be parsed is counted as a success, never as a
\* failure, and is returned to the caller as an error.
C19_FailuresCounted ==
    Received =>
        /\ NotOK(last.response) \/ last.response.err # "" =>
              last.counted \in {"failure", "ignored"} /\ last.err # ""
        /\ Unparseable(last.response) =>
              /\ last.counted \in {"success", "ignored"}
              /\ last.err # "" /\ last.drivers = <<>>

\* after five consecutive failures a body that is not JSON has been counted
\* as a success and has reset the consecutive failures
C19_Witness ==
    /\ Received /\ Unparseable(last.response) /\ last.counted = "success"
    /\ breaker.state = StateClosed
    /\ breaker.counts.TotalFailures = DefaultConsecutiveFailures
    /\ breaker.counts.ConsecutiveFailures = 0

\* ---- C20 ----
\* C20: when the response is an HTTP 200 whose body has success = false,
\* FindNearbyDrivers returns the error "driver location service error" and
\* no driver list, whatever else the body holds.
C20_SuccessFalseIsError ==
    Received /\ last.response.err = "" /\ last.response.status = StatusOK
             /\ last.response.body.json /\ ~last.response.body.success =>
        /\ last.err = "driver location service error"
        /\ last.drivers = <<>>

\* a 200 response with success = false and a driver list has been turned
\* into an error
C20_Witness ==
    /\ Received /\ last.response.status = StatusOK
    /\ last.response.body.json /\ ~last.response.body.success
    /\ last.response.body.drivers # <<>>
    /\ last.err = "driver location service error" /\ last.drivers = <<>>

\* ---- C21 ----
\* the calls the breaker has counted as ended in its generation
Counted(b) == b.counts.TotalSuccesses + b.counts.TotalFailures

\* C21: all calls go through the one breaker the client was built with, and
\* its counts change in one step per call: in every generation of the
\* breaker the calls it admitted are those it has counted as ended, as a
\* success or as a failure, plus those still in their closure, so that no
\* call of the generation is missed or counted twice however the calls
\* overlap; a call that ends is counted exactly once, unless the breaker has
\* begun a new generation since it was admitted or begins one with it.
C21_EveryCallCountedOnce ==
    [][/\ breaker.counts.Requests = Counted(breaker) + inflight.current
       /\ breaker.counts.ConsecutiveSuccesses <= breaker.counts.TotalSuccesses
       /\ breaker.counts.ConsecutiveFailures <= breaker.counts.TotalFailures
       /\ (CountedSuccess \/ CountedFailure) /\ breaker'.counts # ZeroCounts =>
             /\ Counted(breaker') = Counted(breaker) + 1
             /\ breaker'.counts.Requests = breaker.counts.Requests
             /\ inflight'.current = inflight.current - 1
             /\ CountedSuccess =>
                   breaker'.counts.TotalSuccesses = breaker.counts.TotalSuccesses + 1
             /\ CountedFailure =>
                   breaker'.counts.TotalFailures = breaker.counts.TotalFailures + 1]_vars

\* of four overlapping calls one has been counted as a failure and one, just
\* now, as a success, while two are still in their closure
C21_Witness ==
    /\ breaker.counts.Requests = 4 /\ inflight.current = 2
    /\ breaker.counts.TotalFailures = 1 /\ breaker.counts.TotalSuccesses = 1
    /\ last # <<>> /\ last.counted = "success"

(* ------------------------- matching service --------------------------- *)
\* the handler has passed the request on to MatchRiderToDriver
Served == match # <<>> /\ match.reached

\* the call MatchRiderToDriver made to the client returned a list
ListReturned == Served /\ match.calls[1].err = ""

\* the call MatchRiderToDriver made to the client failed
UpstreamFailed == Served /\ match.calls[1].err # ""

\* ---- C22 ----
\* C22: MatchRiderToDriver fails with "no drivers found" exactly when the
\* client returned an empty candidate list; when the list is not empty it
\* returns one MatchResult, carrying the ID of the rider who asked, the ID of
\* the first driver of the list and that driver's distance rounded to two
\* decimals; a failed match returns no result.
C22_HeadOfListOrNoDrivers ==
    Served =>
        /\ match.err = ErrNoDrivers <=> (ListReturned /\ match.calls[1].drivers = <<>>)
        /\ ListReturned /\ match.calls[1].drivers # <<>> =>
              /\ match.err = ""
              /\ match.result =
                    MatchResult(match.request.user_id,
                                match.calls[1].drivers[1].Driver.ID,
                                RoundCentimetres(match.calls[1].drivers[1].Distance))
        /\ match.err # "" => match.result = <<>>

\* a rider is matched to the first of two candidates
C22_Witness ==
    /\ Served /\ match.err = ""
    /\ Len(match.calls[1].drivers) = 2
    /\ match.result.DriverID = "d1" /\ match.result.RiderID = "rider-2"

\* ---- C23 ----
\* C23: a match request whose candidate list is empty is answered 404
\* not_found and never 500; one whose client call failed (breaker open,
\* transport failure, error response) is answered 500 internal_error and
\* never as "no drivers".
C23_EmptyIs404FailureIs5xx ==
    /\ ListReturned /\ match.calls[1].drivers = <<>> =>
          match.status = StatusNotFound /\ match.error = "not_found"
    /\ UpstreamFailed =>
          /\ match.status = StatusInternalServerError
          /\ match.error = "internal_error"
          /\ match.err # ErrNoDrivers

\* a request refused by the open breaker is answered 500
C23_Witness ==
    /\ UpstreamFailed /\ match.calls[1].err = ErrOpenState
    /\ match.status = StatusInternalServerError

\* ---- C24 ----
\* C24: a match request makes exactly one call to the client, which sends at
\* most one request to the Location Service, and when that call fails its
\* error is the error of the match: nothing is retried.
C24_SingleCallNoRetry ==
    [][match' # <<>> /\ match'.reached =>
          /\ Len(match'.calls) = 1
          /\ breaker'.counts.Requests <= currentState(breaker).counts.Requests + 1
          /\ match'.calls[1].err # "" =>
                match'.err = match'.calls[1].err /\ match'.result = <<>>]_vars

\* the one call of a request failed in transport and the match failed with it
C24_Witness ==
    /\ UpstreamFailed /\ Len(match.calls) = 1
    /\ match.calls[1].admitted /\ match.err = "transport"
    /\ breaker.counts.TotalFailures = 1 /\ breaker.counts.Requests = 1

(* --------------------- the repository, called directly ---------------- *)
\* the repository call name has just returned
RepoReturned(name) == proc[1].pc = "done" /\ proc[1].op = name

\* ---- C25 ----
\* C25: GetByID, Update and Delete called with an ID no document has never
\* succeed and leave the collection as it was; unless the database itself
\* fails, the error they return is "driver not found: <id>".
C25_MissingIDIsNotFound ==
    [][\A name \in {"repo.GetByID", "repo.Update", "repo.Delete"} :
          RepoReturned(name)' /\ proc'[1].id \notin DOMAIN collection =>
              /\ collection' = collection
              /\ proc'[1].calls[1].out \in {"notfound", "err"}
              /\ proc'[1].err # ""
              /\ proc'[1].calls[1].out = "notfound" <=>
                    proc'[1].err = "driver not found: " \o proc'[1].id]_vars

\* an update of a missing driver was refused while another driver is stored
C25_Witness ==
    /\ RepoReturned("repo.Update") /\ proc[1].id = "d2"
    /\ proc[1].err = "driver not found: d2"
    /\ DOMAIN collection = {"d1"}

\* ---- C26 ----
\* C26: BatchCreate inserts document by document: every document it adds is
\* the whole driver of the batch, with its ID (generated when it was empty),
\* its location and both timestamps set to the time of the call; the
\* documents stored before are untouched; a batch that succeeds has stored
\* every driver, one that fails has stored fewer documents than it has
\* drivers (possibly some, possibly none).
C26_PerItemNotAllOrNothing ==
    [][RepoReturned("repo.BatchCreate")' =>
          LET ds == proc'[1].batch
              new == DOMAIN collection' \ DOMAIN collection
          IN  /\ \A k \in DOMAIN collection :
                    k \in DOMAIN collection' /\ collection'[k] = collection[k]
              /\ \A k \in new : \E i \in 1..Len(ds) :
                    /\ k # "" /\ ds[i].ID = k
                    /\ collection'[k]._id = k
                    /\ collection'[k].location = ds[i].Location
                    /\ collection'[k].created_at \in RepoTimes
                    /\ collection'[k].updated_at = collection'[k].created_at
              /\ proc'[1].err = "" =>
                    /\ new = {ds[i].ID : i \in 1..Len(ds)}
                    /\ Cardinality(new) = Len(ds)
              /\ proc'[1].err # "" => Cardinality(new) < Len(ds)]_vars

\* a batch of two failed after its first driver was stored
C26_Witness ==
    /\ RepoReturned("repo.BatchCreate") /\ proc[1].err # ""
    /\ Len(proc[1].batch) = 2
    /\ proc[1].batch[1].ID = "oid1" /\ proc[1].batch[2].ID = "d1"
    /\ DOMAIN collection = {"oid1", "d1"}
    /\ collection["oid1"].created_at = proc[1].batch[1].CreatedAt
    /\ collection["d1"].created_at # proc[1].batch[2].CreatedAt

\* ---- C27 ----
\* C27: BatchCreate of an empty list returns no error, stores nothing and
\* generates no ID.
C27_EmptyBatchIsNoOp ==
    [][RepoReturned("repo.BatchCreate")' /\ proc'[1].batch = <<>> =>
          /\ proc'[1].err = "" /\ proc'[1].calls[1].out = "ok"
          /\ collection' = collection
          /\ generated' = generated]_vars

\* an empty batch has returned without error on a collection of one driver
C27_Witness ==
    /\ RepoReturned("repo.BatchCreate") /\ proc[1].batch = <<>>
    /\ proc[1].err = "" /\ DOMAIN collection = {"d1"}

(* ------------------- deadlines of the outbound calls ------------------- *)
\* ---- C28 ----
\* C28 as stated: no outbound call, to the Location Service or to the store,
\* is still pending once time has passed since its caller's signal fired.
C28_AsStated ==
    IsPending /\ outbound.signal => outbound.sinceSignal = 0

\* ---- C29 ----
\* C29: a call of the client never stays pending beyond its own timeout of
\* RequestTimeout (30) seconds; it ends only by an answer, by its caller's
\* signal or by that timeout, which falls RequestTimeout seconds after the
\* call began whatever the breaker does meanwhile: while the call is pending
\* the breaker may open, pass its cooldown or begin a new generation, and
\* the call goes on with its age.
C29_OwnRequestTimeout ==
    [][IsPending /\ outbound.kind = "client" =>
          /\ outbound.age <= RequestTimeout
          /\ outbound'.kind = "client"
          /\ outbound'.state = "pending" =>
                outbound'.age \in {outbound.age, outbound.age + DeadlineStep}
          /\ outbound'.state # "pending" =>
                /\ outbound'.age = outbound.age
                /\ outbound'.cause \in {"response", "context canceled", "deadline exceeded"}
                /\ outbound'.cause = "context canceled" => outbound.signal
                /\ outbound'.cause = "deadline exceeded" =>
                      /\ outbound.age >= RequestTimeout
                      /\ outbound.age < RequestTimeout + DeadlineStep]_vars

\* a call of the client ended by its own timeout after the breaker had
\* opened and its cooldown had passed during the call: the breaker is
\* Half-Open when the call ends
C29_Witness ==
    /\ outbound # <<>> /\ outbound.kind = "client"
    /\ outbound.state = "aborted" /\ outbound.cause = "deadline exceeded"
    /\ outbound.age = RequestTimeout /\ outbound.stale
    /\ breaker.state = StateHalfOpen

(* ------------------------ the shared-secret header -------------------- *)
\* the header value is not the configured key
InvalidKey(apiKey) == TrimKey(apiKey) # TrimKey(MatchingAPIKey)

C31_LongitudeFirst ==
    \A lat, lon \in CsvCoords :
        importer.record = <<ToString(lat), ToString(lon)>> /\ importer.pc # "read" =>
            /\ importer.req.Location.Coordinates = <<lon, lat>>
            /\ Longitude(importer.req.Location) = lon
            /\ Latitude(importer.req.Location) = lat
            /\ \A id \in DOMAIN collection : collection[id].location.Coordinates = <<lon, lat>>
            /\ importer.pc = "searched" =>
                 LET x == importer.query.Coordinates[1]
                     y == importer.query.Coordinates[2]
                     near == HaversineDistance(y, x, lat, lon)
                                <= RadiusMilliMeters(importer.radius)
                 IN  /\ importer.filter.geometry.coordinates = <<x, y>>
                     /\ importer.key = "nearby:" \o FormatF6(y) \o ":" \o FormatF6(x) \o ":"
                                          \o FormatF0(importer.radius) \o ":"
                                          \o ToString(DefaultLimit)
                     /\ Len(importer.found) = (IF near /\ collection # <<>> THEN 1 ELSE 0)
                     /\ \A i \in 1..Len(importer.found) :
                          /\ importer.found[i].Driver.Location.Coordinates = <<lon, lat>>
                          /\ importer.found[i].Distance = HaversineDistance(y, x, lat, lon)

\* the record "1,-2" (latitude 1, longitude -2) was imported and then found by
\* a search around [-2, 0]
C31_Witness ==
    /\ importer # <<>>
    /\ importer.pc = "searched"
    /\ importer.record = <<"1", "-2">>
    /\ importer.query = NewPoint(-2, 0)
    /\ Len(importer.found) = 1

(* ====================== properties of the importer ===================== *)
\* C32 as stated: the import always completes, whatever the number of
\* batches and of failing batches: the main goroutine gets past wg.Wait and
\* the drain of errCh.
C32_AsStated == <>(importer.pc = "done")

\* C33 as stated: when the import is over, the errors it reports for the
\* batches are the drivers of the batches whose call failed, and the
\* successes it reports are the drivers requested less those errors.
C33_AsStated ==
    importer.pc = "done" =>
        /\ importer.errorCount - importer.badRows = importer.failedItems
        /\ importer.successCount = importer.requested - importer.failedItems

(* ============== properties of the match request validation ============= *)
\* the request breaks one of the rules of MatchRequest: the location is not a
\* Point, its longitude is outside -180..180 or its latitude outside -90..90,
\* or the radius is outside 0.1..50000 metres
FailsMatchValidation(req) ==
    \/ req.location.Type # "Point"
    \/ req.location.Coordinates[1] < 0 - MaxLongitude
    \/ req.location.Coordinates[1] > MaxLongitude
    \/ req.location.Coordinates[2] < 0 - MaxLatitude
    \/ req.location.Coordinates[2] > MaxLatitude
    \/ req.radius < MinRadius
    \/ req.radius > MaxRadius

\* C34: an authenticated match request with a readable body that fails
\* validation is answered 400 validation_error, the matching service is not
\* reached, no call to the Location Service is made for it and the client's
\* breaker is left as it was.
C34_InvalidRequestRejected ==
    [][(/\ match' # <<>>
        /\ match'.request.is_authenticated
        /\ match'.request.body = "json"
        /\ FailsMatchValidation(match'.request))
       => /\ match'.status = StatusBadRequest
          /\ match'.error = "validation_error"
          /\ ~match'.reached
          /\ match'.calls = <<>>
          /\ breaker' = breaker]_vars

\* a request with a radius of -10 m was refused after earlier requests had
\* been passed on to the Location Service
C34_Witness ==
    /\ match # <<>>
    /\ match.request.is_authenticated
    /\ match.request.radius = -1000
    /\ match.request.location = Q0
    /\ match.status = StatusBadRequest
    /\ match.error = "validation_error"
    /\ breaker.counts.Requests > 0

(* ============ properties of the pipeline under concurrency ============= *)
\* C35 as stated: when DeleteDriver(d) has returned successfully, with none
\* of its cache calls failed, a GetDriver(d) that starts next does not return
\* d's record, whether or not another request ran during the delete.
C35_AsStated ==
    [][\A p, q \in Procs :
         (/\ proc[q].op = "DeleteDriver" /\ Succeeded(q) /\ ~CacheFailed(q)
          /\ Free(p) /\ proc'[p].op = "GetDriver" /\ proc'[p].id = proc[q].id
          /\ proc'[p].pc = "done")
            => proc'[p].ret = <<>>]_vars

\* C35, amended: when DeleteDriver(d) has returned successfully, none of its
\* cache calls failed and no other request ran during it, d is neither in
\* the store nor in the cache; a GetDriver(d) that starts next misses the
\* cache and goes on to the store, which does not find d.
C35_DeletedWhenAlone ==
    [][\A q \in Procs :
         (proc[q].op = "DeleteDriver" /\ Succeeded(q) /\ ~CacheFailed(q) /\ ~proc[q].overlap)
            => /\ proc[q].id \notin DOMAIN collection
               /\ generateDriverKey(proc[q].id) \notin DOMAIN redis
               /\ \A p \in Procs :
                    (Free(p) /\ proc'[p].op = "GetDriver" /\ proc'[p].id = proc[q].id)
                       => /\ proc'[p].calls[1].call = "cache.Get"
                          /\ proc'[p].calls[1].out # "hit"
                          /\ proc'[p].pc = "repo.GetByID"
                          /\ \A o \in RepoGetByID(collection', proc'[p].id) : o.out # "ok"]_vars

\* a delete has returned, alone and with its cache calls done, in a cache
\* that held search results
C35_Witness ==
    \E q \in Procs :
        /\ proc[q].op = "DeleteDriver" /\ Succeeded(q) /\ ~CacheFailed(q) /\ ~proc[q].overlap
        /\ cacheKind = "redis"
        /\ LastCall(q).call = "cache.InvalidateNearbyCache"
        /\ LastCall(q).val[1] # {}

(* ============ properties of the pipeline, one request at a time ======== *)
\* ---- C36 ----
\* read request p returns in this step without an error
ReadReturns(p) ==
    /\ proc'[p] # proc[p]
    /\ proc'[p].op \in Reads
    /\ proc'[p].pc = "done" /\ proc'[p].err = ""

\* the nearby key of the search request pr
SearchKey(pr) ==
    generateNearbyKey(Latitude(pr.location), Longitude(pr.location), pr.radius, pr.limit)

Applied(doc, pr) ==
    IF pr.op = "UpdateDriverLocation" THEN [doc EXCEPT !.location = pr.location]
    ELSE [doc EXCEPT !.location = pr.val[1].Location, !.created_at = pr.val[1].CreatedAt]

SameRecord(a, b) == a.location = b.location /\ a.created_at = b.created_at

\* C37 as stated: once two updates of the same driver, one of them a location
\* update, have both returned successfully, the stored record is what the two
\* updates give when applied one after the other in some order.
C37_AsStated ==
    \A p, q \in Procs :
        (/\ p # q
         /\ proc[p].pc = "done" /\ proc[p].err = ""
         /\ proc[q].pc = "done" /\ proc[q].err = ""
         /\ proc[p].id = "d1" /\ proc[q].id = "d1"
         /\ proc[p].op = "UpdateDriverLocation")
            => \/ SameRecord(collection["d1"], Applied(Applied(UpdateBase, proc[p]), proc[q]))
               \/ SameRecord(collection["d1"], Applied(Applied(UpdateBase, proc[q]), proc[p]))

\* two location updates of the same driver that have both returned
\* successfully leave the location of one of them
TwoLocationUpdatesKeepOne ==
    \A p, q \in Procs :
        (/\ p # q
         /\ proc[p].pc = "done" /\ proc[p].err = ""
         /\ proc[q].pc = "done" /\ proc[q].err = ""
         /\ proc[p].op = "UpdateDriverLocation" /\ proc[q].op = "UpdateDriverLocation")
            => /\ collection["d1"].location \in {proc[p].location, proc[q].location}
               /\ collection["d1"].created_at = UpdateBase.created_at

(* ================== properties of empty search results ================= *)
\* ---- C38 ----
\* C38: a search whose repository query returned no driver stores the empty
\* list under its nearby key when the cache write does not fail; and a search
\* that starts while its key holds an empty list, its lookup not failing,
\* returns the empty list at once as a hit, with no repository call.
C38_EmptyResultServedAsHit ==
    [][\A p \in Procs :
         /\ (/\ proc[p].op = "SearchNearbyDrivers" /\ proc[p].pc = "cache.SetNearbyDrivers"
             /\ proc[p].val = << <<>> >>
             /\ JustCalled(p, "cache.SetNearbyDrivers")
             /\ cacheKind = "redis")
               => /\ SearchKey(proc[p]) \in DOMAIN redis'
                  /\ UnmarshalNearby(redis'[SearchKey(proc[p])].data) = <<>>
                  /\ proc'[p].pc = "done" /\ proc'[p].err = ""
                  /\ proc'[p].ret = << <<>> >>
         /\ (/\ Free(p) /\ proc'[p].op = "SearchNearbyDrivers" /\ proc'[p].calls # <<>>
             /\ proc'[p].calls[1].out # "err"
             /\ SearchKey(proc'[p]) \in DOMAIN redis
             /\ UnmarshalNearby(redis[SearchKey(proc'[p])].data) = <<>>)
               => /\ proc'[p].pc = "done" /\ proc'[p].err = ""
                  /\ proc'[p].ret = << <<>> >>
                  /\ Len(proc'[p].calls) = 1
                  /\ proc'[p].calls[1].call = "cache.GetNearbyDrivers"
                  /\ proc'[p].calls[1].out = "hit"
                  /\ collection' = collection]_vars

\* a search has returned an empty list from the cache without a repository
\* call
C38_Witness ==
    \E p \in Procs :
        /\ proc[p].op = "SearchNearbyDrivers" /\ Succeeded(p)
        /\ Len(proc[p].calls) = 1
        /\ proc[p].calls[1].out = "hit"
        /\ proc[p].ret = << <<>> >>
        /\ UnmarshalNearby(redis[ReadKey(p)].data) = <<>>

(* ================= properties of a batch inserted in part ============== *)
\* ---- C39 ----
\* the batch request p returns in this step having inserted at least one
\* driver: all of a batch that has drivers when it succeeds, some when the
\* repository call of this step changed the collection and failed
BatchReturnsHavingInserted(p) ==
    /\ proc'[p] # proc[p]
    /\ proc'[p].op = "BatchCreateDrivers" /\ proc'[p].pc = "done"
    /\ IF proc'[p].err = "" THEN proc'[p].batch # <<>>
       ELSE proc'[p].calls # <<>> /\ collection' # collection

\* C39 as stated: a batch create that has inserted at least one driver has
\* called the invalidation of the nearby entries when it returns, also when it
\* returns the failure of a batch that was inserted in part.
C39_AsStated ==
    [][\A p \in Procs :
         BatchReturnsHavingInserted(p)
            => \E i \in DOMAIN proc'[p].calls :
                  proc'[p].calls[i].call = "cache.InvalidateNearbyCache"]_vars

\* a batch create that returns without an error has called the invalidation
\* of the nearby entries
BatchInvalidatesOnSuccess ==
    [][\A p \in Procs :
         (BatchReturnsHavingInserted(p) /\ proc'[p].err = "")
            => \E i \in DOMAIN proc'[p].calls :
                  proc'[p].calls[i].call = "cache.InvalidateNearbyCache"]_vars

====
